---- MODULE Spec2Model ----
(***************************************************************************)
(* Achievement progress aggregation of the Steam achievement tracker.      *)
(*                                                                         *)
(* AchievementService.get_achievement_progress                             *)
(* (src/py_modules/services/achievement.py) is an asyncio coroutine: the   *)
(* code between two awaits runs atomically, so every action below is one   *)
(* such segment of one call, from the await it resumes at to the await it  *)
(* suspends at (or to its return).                                          *)
(*                                                                         *)
(* The cache service the aggregator is constructed with offers             *)
(* get_overall_progress / save_overall_progress.  Its class               *)
(* (services.FileCacheService, imported by services/__init__.py) is not    *)
(* part of the sources; GetOverallProgress and the write in                *)
(* SaveOverallProgress follow the specification of the aggregate cache.   *)
(***************************************************************************)
EXTENDS Integers, Sequences, FiniteSets, TLC

\* ------------------------------------------------------------------ bounds
NCalls == 2
MaxJumps == 1

\* ------------------------------------------------------- program constants
PROGRESS_CALCULATION == 300
PROGRESS_FILE_TTL == 86400
GAME_COUNT_TOLERANCE == 5
MAX_GAMES == 20

Calls == 1..NCalls

\* time.time(): the clock starts at T0 and takes the values around every
\* multiple of the safety timeout, so both sides of each comparison occur
T0 == PROGRESS_FILE_TTL + PROGRESS_CALCULATION
ClockValues ==
    {T0} \cup { T0 + PROGRESS_CALCULATION * k + j : k \in 1..MaxJumps, j \in 0..1 }

\* ------------------------------------------------------------ option type
None == [some |-> FALSE]
Some(v) == [some |-> TRUE, val |-> v]

Abs(x) == IF x < 0 THEN 0 - x ELSE x

\* dict.get(key, default)
Get(d, k, default) == IF k \in DOMAIN d THEN d[k] ELSE default

\* ---------------------------------------------------------- game catalog
\* one entry of response.games of GetOwnedGames
Game(id, stats) == [appid |-> id, has_community_visible_stats |-> stats]

Plain(n) == [k \in 1..n |-> Game(100 + k, FALSE)]

\* the flagged games of the user's library, and the numbers of unflagged ones
FlaggedGames == << Game(1, TRUE) >>
FanoutGames == << Game(1, TRUE), Game(2, TRUE), Game(3, TRUE) >>
PlainCounts == {0, GAME_COUNT_TOLERANCE, GAME_COUNT_TOLERANCE + 1}

\* what the provider knows about a game: (total, unlocked) of its schema
AchievementsOf(appid) ==
    CASE appid = 1 -> [total |-> 1, unlocked |-> 1]
      [] appid = 2 -> [total |-> 2, unlocked |-> 1]
      [] OTHER -> [total |-> 0, unlocked |-> 0]

\* ------------------------------------------------- per-game achievements
\* AchievementService.get_achievements(app_id): what the call can return.
\* An exception of the client is turned into an error result; a game whose
\* schema has no achievements comes back as the zero-total summary, which
\* carries an explanatory error.
FetchOutcomes == {"raise", "error", "summary"}

GetAchievements(appid, outcome) ==
    IF outcome = "raise" THEN [error |-> "Failed to get achievements"]
    ELSE IF outcome = "error" THEN [error |-> "Failed to fetch achievements"]
    ELSE IF AchievementsOf(appid).total = 0
         THEN [app_id |-> appid, total |-> 0, unlocked |-> 0,
               error |-> "No achievements found for this game"]
         ELSE [app_id |-> appid, total |-> AchievementsOf(appid).total,
               unlocked |-> AchievementsOf(appid).unlocked]

\* SteamAPI.get_app_details as process_game sees it: a record with a header
\* image, the fallback or error record without one, or an exception
DetailOutcomes == {"details", "fallback", "raise"}

HeaderImage(outcome) == IF outcome = "details" THEN "header.jpg" ELSE ""

\* the value of a finished process_game task: None, or the result record
NoResult == [ok |-> FALSE, appid |-> 0, total |-> 0, unlocked |-> 0,
             is_perfect |-> FALSE, header_image |-> ""]

\* process_game after get_achievements has returned `achievements`
ProcessGameResult(game, achievements) ==
    IF "error" \notin DOMAIN achievements
       /\ "total" \in DOMAIN achievements /\ achievements.total > 0
    THEN [ok |-> TRUE, appid |-> game.appid, total |-> achievements.total,
          unlocked |-> achievements.unlocked,
          is_perfect |-> (achievements.unlocked = achievements.total),
          header_image |-> ""]
    ELSE NoResult

\* --------------------------------------------------------- aggregation
\* round(n / d * 100, 1) in tenths of a percent, ties to the even digit
RoundTenths(n, d) ==
    LET q == (1000 * n) \div d
        r == (1000 * n) % d
    IN  IF 2 * r > d \/ (2 * r = d /\ q % 2 = 1) THEN q + 1 ELSE q

AverageCompletion(unlocked, total) ==
    IF total > 0 THEN RoundTenths(unlocked, total) ELSE 0

NoAcc == [games_with_achievements |-> 0, total_achievements |-> 0,
          unlocked_achievements |-> 0, processed_games |-> 0,
          perfect_games |-> << >>]

\* Accumulate with processed_games counting every finished task, also one
\* that yielded no result
AccumulateCountingAll(acc, result) ==
    IF result.ok
    THEN [games_with_achievements |-> acc.games_with_achievements + 1,
          total_achievements |-> acc.total_achievements + result.total,
          unlocked_achievements |-> acc.unlocked_achievements + result.unlocked,
          processed_games |-> acc.processed_games + 1,
          perfect_games |->
              IF result.is_perfect
              THEN Append(acc.perfect_games,
                          [app_id |-> result.appid,
                           total_achievements |-> result.total,
                           unlocked_achievements |-> result.unlocked,
                           header_image |-> result.header_image])
              ELSE acc.perfect_games]
    ELSE [acc EXCEPT !.processed_games = @ + 1]

\* Accumulate adding a game's total to the unlocked sum and its unlocked
\* count to the total sum
AccumulateSwapped(acc, result) ==
    IF result.ok
    THEN [games_with_achievements |-> acc.games_with_achievements + 1,
          total_achievements |-> acc.total_achievements + result.unlocked,
          unlocked_achievements |-> acc.unlocked_achievements + result.total,
          processed_games |-> acc.processed_games + 1,
          perfect_games |->
              IF result.is_perfect
              THEN Append(acc.perfect_games,
                          [app_id |-> result.appid,
                           total_achievements |-> result.total,
                           unlocked_achievements |-> result.unlocked,
                           header_image |-> result.header_image])
              ELSE acc.perfect_games]
    ELSE acc

\* one pass of the body of `async for result in ...`
Accumulate(acc, result) ==
    IF result.ok
    THEN [games_with_achievements |-> acc.games_with_achievements + 1,
          total_achievements |-> acc.total_achievements + result.total,
          unlocked_achievements |-> acc.unlocked_achievements + result.unlocked,
          processed_games |-> acc.processed_games + 1,
          perfect_games |->
              IF result.is_perfect
              THEN Append(acc.perfect_games,
                          [app_id |-> result.appid,
                           total_achievements |-> result.total,
                           unlocked_achievements |-> result.unlocked,
                           header_image |-> result.header_image])
              ELSE acc.perfect_games]
    ELSE acc

\* BuildResult with total_games counting only the games that were fanned out
BuildResultCountingFlagged(gamesList, acc, time) ==
    [total_games |-> Len(SelectSeq(gamesList,
                                   LAMBDA g : g.has_community_visible_stats)),
     games_with_achievements |-> acc.games_with_achievements,
     total_achievements |-> acc.total_achievements,
     unlocked_achievements |-> acc.unlocked_achievements,
     average_completion |->
         AverageCompletion(acc.unlocked_achievements, acc.total_achievements),
     perfect_games |-> acc.perfect_games,
     perfect_games_count |-> Len(acc.perfect_games),
     last_updated |-> time,
     processed_games |-> acc.processed_games]

\* the result dict built after the fan-out
BuildResult(gamesList, acc, time) ==
    [total_games |-> Len(gamesList),
     games_with_achievements |-> acc.games_with_achievements,
     total_achievements |-> acc.total_achievements,
     unlocked_achievements |-> acc.unlocked_achievements,
     average_completion |->
         AverageCompletion(acc.unlocked_achievements, acc.total_achievements),
     perfect_games |-> acc.perfect_games,
     perfect_games_count |-> Len(acc.perfect_games),
     last_updated |-> time,
     processed_games |-> acc.processed_games]

\* json null
Null == 0 - 1

\* validate_progress_data reading processed_games under a wrong key
ValidateProgressDataWrongKey(data) ==
    [total_games |-> Get(data, "total_games", 0),
     games_with_achievements |-> Get(data, "games_with_achievements", 0),
     total_achievements |-> Get(data, "total_achievements", 0),
     unlocked_achievements |-> Get(data, "unlocked_achievements", 0),
     average_completion |-> Get(data, "average_completion", 0),
     perfect_games |-> Get(data, "perfect_games", << >>),
     perfect_games_count |-> Get(data, "perfect_games_count", 0),
     last_updated |-> Get(data, "last_updated", Null),
     processed_games |-> Get(data, "processed", Null)]

\* validate_progress_data(data)
ValidateProgressData(data) ==
    LET validated ==
            [total_games |-> Get(data, "total_games", 0),
             games_with_achievements |-> Get(data, "games_with_achievements", 0),
             total_achievements |-> Get(data, "total_achievements", 0),
             unlocked_achievements |-> Get(data, "unlocked_achievements", 0),
             average_completion |-> Get(data, "average_completion", 0),
             perfect_games |-> Get(data, "perfect_games", << >>),
             perfect_games_count |-> Get(data, "perfect_games_count", 0),
             last_updated |-> Get(data, "last_updated", Null),
             processed_games |-> Get(data, "processed_games", Null)]
        \* int(None) and float(None) raise
        numbers == {"total_games", "games_with_achievements",
                    "total_achievements", "unlocked_achievements",
                    "average_completion", "perfect_games_count"}
    IN  IF \E f \in numbers : validated[f] = Null
        THEN [total_games |-> 0, games_with_achievements |-> 0,
              total_achievements |-> 0, unlocked_achievements |-> 0,
              average_completion |-> 0, perfect_games |-> << >>,
              perfect_games_count |-> 0,
              error |-> "Data validation failed"]
        ELSE IF "error" \in DOMAIN data
        THEN [f \in DOMAIN validated \cup {"error"} |->
                  IF f = "error" THEN data.error ELSE validated[f]]
        ELSE validated

\* ------------------------------------------------------ aggregate cache
NoFile == [exists |-> FALSE]
File(mtime, doc) == [exists |-> TRUE, mtime |-> mtime, doc |-> doc]

\* cache_service.get_overall_progress(): the document, if the file exists
\* and is younger than its TTL
GetOverallProgress(file, time) ==
    IF file.exists /\ time - file.mtime < PROGRESS_FILE_TTL
    THEN Some(file.doc)
    ELSE None

\* the catalog handed to the fan-out as it came
GamesWithStatsUnfiltered(gamesList) == gamesList

\* the filter of the catalog before the fan-out
GamesWithStats(gamesList) ==
    SelectSeq(gamesList, LAMBDA g : g.has_community_visible_stats)

\* GetOwnedGames: the library as the provider lists it
Library(flagged, nplain) == flagged \o Plain(nplain)

\* SteamAPI.get_owned_games(): an exception, an error result, or the catalog
OwnedGames(kind, lib) ==
    IF kind = "ok" THEN [kind |-> "ok", games |-> lib] ELSE [kind |-> kind]
NoOwned == [kind |-> "none"]
CatalogOutcomes == {"raise", "error", "ok"}

\* the failure test of the catalog answer left out
OwnedGamesFailedIgnored(response) == FALSE

\* `not owned_games or owned_games.get("error")`
OwnedGamesFailed(response) == response.kind # "ok"

\* owned_games.get("response", {}).get("games", [])
GamesOf(response) == Get(response, "games", << >>)

\* ================================================================ state
VARIABLES
    configured,             \* api, api_key and user_id of the service are set
    now,                    \* time.time()
    library,                \* the games the provider lists for the user
    cacheFile,              \* overall_progress.json
    locked,                 \* _progress_lock.locked()
    waiters,                \* calls suspended in _progress_lock.acquire()
    is_processing,          \* _is_processing
    processing_start_time,  \* _processing_start_time
    pc,                     \* where each call of get_achievement_progress is
    force,                  \* its force_refresh
    cached,                 \* its cached_data
    owned,                  \* its owned_games (the cache validation's answer)
    games,                  \* its games
    tasks,                  \* its process_game tasks
    acc,                    \* its running totals
    result,                 \* its result dict
    ret                     \* what it returned

shared == << configured, now, library, cacheFile, locked, waiters,
             is_processing, processing_start_time >>
locals == << pc, force, cached, owned, games, tasks, acc, result, ret >>

\* the state of the SteamAPI client
VARIABLES
    credentials,            \* api_key and steam_id of the client are set
    session,                \* self.session: "none" or "open"
    sem_value,              \* free permits of _request_semaphore
    sem_waiters,            \* operations suspended in its acquire()
    achievement_cache,      \* self.achievement_cache: key -> entry
    schema_cache,           \* self.schema_cache: key -> entry
    detail_files,           \* cache_dir/game_<app_id>.json, per app
    ops                     \* where each operation of the client is

serviceVars == << configured, now, library, cacheFile, locked, waiters,
                  is_processing, processing_start_time,
                  pc, force, cached, owned, games, tasks, acc, result, ret >>
apiVars == << credentials, session, sem_value, sem_waiters,
              achievement_cache, schema_cache, detail_files, ops >>
\* the state of the plugin that owns the client (main.py)
VARIABLES
    steam_api_key,          \* Plugin.steam_api_key
    current_user_id,        \* Plugin.current_user_id
    settings_file,          \* settings.json
    api,                    \* Plugin.api: the client the plugin uses
    closed_clients,         \* the clients whose close() has returned
    key_calls               \* where each call of set_steam_api_key is

pluginVars == << steam_api_key, current_user_id, settings_file, api,
                 closed_clients, key_calls >>

vars == << configured, now, library, cacheFile, locked, waiters,
           is_processing, processing_start_time,
           pc, force, cached, owned, games, tasks, acc, result, ret,
           credentials, session, sem_value, sem_waiters,
           achievement_cache, schema_cache, detail_files, ops,
           steam_api_key, current_user_id, settings_file, api,
           closed_clients, key_calls >>

\* ======================================================= SteamAPI client
MAX_API_REQUESTS == 6
ACHIEVEMENT_TTL == 300
SCHEMA_TTL == 3600
APP_DETAILS_TTL == 86400

\* the operations that run on the client at the same time
NOps == 2
Ops == 1..NOps
\* one operation more than the request pool has permits
PoolOps == 1..(MAX_API_REQUESTS + 1)

Apps == {1, 2}
Users == {"self", "other"}

\* f"{app_id}_{steam_id}", f"schema_{app_id}", and app_id itself used as a key
AchievementKey(app, user) == << app, user >>
SchemaKey(app) == << "schema_", app >>
PlainKey(app) == << "", app >>

\* ---------------------------------------------------------------- _get
\* what the provider does with a request: 200 with a body, 403/429, another
\* status, or no answer at all (timeout, connection error: an exception)
GetOutcomes == {"ok", "limited", "status", "raise"}

\* the value _get returns: the decoded body on 200, None otherwise
HttpGet(outcome, body) == IF outcome = "ok" THEN Some(body) ELSE None

\* ------------------------------------------------------ provider bodies
\* playerstats of GetPlayerAchievements: a refusal, or the achievements of
\* the player (apiname -> achieved, unlocktime); "X" is not in any schema
PlayerBodies ==
    { [success |-> FALSE, error |-> "Profile is not public"],
      [success |-> TRUE,
       achievements |-> [n \in {"A", "B"} |->
                            IF n = "A" THEN [achieved |-> 1, unlocktime |-> 7]
                            ELSE [achieved |-> 0, unlocktime |-> 0]]],
      [success |-> TRUE,
       achievements |-> [n \in {"A", "X"} |-> [achieved |-> 1, unlocktime |-> 9]]] }

\* availableGameStats.achievements of GetSchemaForGame: the names, in order;
\* app 1 has two achievements, app 2 has none, app 3 has three, app 4 has one
SchemaOf(app) ==
    CASE app = 1 -> << "A", "B" >>
      [] app = 3 -> << "A", "B", "C" >>
      [] app = 4 -> << "A" >>
      [] OTHER -> << >>

\* achievementpercentages of GetGlobalAchievementPercentagesForApp
GlobalBodies == { [n \in {"A", "B"} |-> IF n = "A" THEN 50 ELSE 10] }
NoGlobal == [n \in {} |-> 0]

\* --------------------------------------------- get_player_achievements
\* get_player_achievements_raw passing on a refusal of the provider as if it
\* were the player's state
PlayerRawIgnoringRefusal(response) ==
    IF ~response.some
    THEN [error |-> "Failed to fetch achievements for app"]
    ELSE [playerstats |-> response.val]

\* get_player_achievements_raw: the answer built from what _get returned
PlayerRaw(response) ==
    IF ~response.some
    THEN [error |-> "Failed to fetch achievements for app"]
    ELSE IF ~response.val.success
    THEN [error |-> "Steam API error"]
    ELSE [playerstats |-> response.val]

\* round(n / d * 100, 1), written in hundredths of a percent
RoundHundredthsToTenths(n, d) == 10 * RoundTenths(n, d)

\* round(n / d * 100, 2) in hundredths of a percent, ties to the even digit
RoundHundredths(n, d) ==
    LET q == (10000 * n) \div d
        r == (10000 * n) % d
    IN  IF 2 * r > d \/ (2 * r = d /\ q % 2 = 1) THEN q + 1 ELSE q

\* one record of the summary: the schema entry joined with the player's
\* state and the global percentage
AchievementRecord(name, player_achs, global_achs) ==
    LET pl == Get(player_achs, name, [n \in {} |-> 0])
    IN  [api_name |-> name,
         unlocked |-> (Get(pl, "achieved", 0) = 1),
         unlock_time |-> Get(pl, "unlocktime", Null),
         global_percent |-> Get(global_achs, name, Null)]

\* the summary with the global percentages of every record left as they came
\* from a fetch that did not fail
SummaryKeepingPercent(app, player_achs, names, global_achs) ==
    LET achievements ==
            [i \in 1..Len(names) |->
                AchievementRecord(names[i], player_achs,
                                  [n \in {"A", "B"} |-> IF n = "A" THEN 50 ELSE 10])]
        unlocked_count ==
            Cardinality({ i \in 1..Len(names) : achievements[i].unlocked })
    IN  IF names = << >>
        THEN [app_id |-> app, total |-> 0, unlocked |-> 0, percentage |-> 0,
              achievements |-> << >>,
              error |-> "No achievements found for this game"]
        ELSE [app_id |-> app, total |-> Len(names), unlocked |-> unlocked_count,
              percentage |-> RoundHundredths(unlocked_count, Len(names)),
              achievements |-> achievements]

\* the summary without the test for an empty schema
SummaryWithoutEmptyTest(app, player_achs, names, global_achs) ==
    LET achievements ==
            [i \in 1..Len(names) |->
                AchievementRecord(names[i], player_achs, global_achs)]
        unlocked_count ==
            Cardinality({ i \in 1..Len(names) : achievements[i].unlocked })
    IN  [app_id |-> app, total |-> Len(names), unlocked |-> unlocked_count,
         percentage |-> IF Len(names) > 0
                        THEN RoundHundredths(unlocked_count, Len(names)) ELSE 0,
         achievements |-> achievements]

\* the summary with the unlocked count taken from the player's payload
\* instead of the records
SummaryCountingPayload(app, player_achs, names, global_achs) ==
    LET achievements ==
            [i \in 1..Len(names) |->
                AchievementRecord(names[i], player_achs, global_achs)]
        unlocked_count ==
            Cardinality({ n \in DOMAIN player_achs :
                            Get(player_achs[n], "achieved", 0) = 1 })
    IN  IF names = << >>
        THEN [app_id |-> app, total |-> 0, unlocked |-> 0, percentage |-> 0,
              achievements |-> << >>,
              error |-> "No achievements found for this game"]
        ELSE [app_id |-> app, total |-> Len(names), unlocked |-> unlocked_count,
              percentage |-> RoundHundredths(unlocked_count, Len(names)),
              achievements |-> achievements]

\* lines 402-456: the zero-total summary for a schema without achievements,
\* the combined summary otherwise
Summary(app, player_achs, names, global_achs) ==
    LET achievements ==
            [i \in 1..Len(names) |->
                AchievementRecord(names[i], player_achs, global_achs)]
        unlocked_count ==
            Cardinality({ i \in 1..Len(names) : achievements[i].unlocked })
    IN  IF names = << >>
        THEN [app_id |-> app, total |-> 0, unlocked |-> 0, percentage |-> 0,
              achievements |-> << >>,
              error |-> "No achievements found for this game"]
        ELSE [app_id |-> app, total |-> Len(names), unlocked |-> unlocked_count,
              percentage |-> RoundHundredths(unlocked_count, Len(names)),
              achievements |-> achievements]

\* ------------------------------------------------------------ TTLCache
NoCache == [k \in {} |-> None]
Entry(value, expires) == [value |-> value, expires |-> expires]

\* TTLCache.get(key) answering every stored entry, expired or not
CacheGetIgnoringExpiry(cache, key, time) ==
    IF key \in DOMAIN cache THEN Some(cache[key].value) ELSE None

\* TTLCache.get(key): the value of an entry that has not expired
CacheGet(cache, key, time) ==
    IF key \in DOMAIN cache /\ time < cache[key].expires
    THEN Some(cache[key].value)
    ELSE None

\* TTLCache[key] = value: expired entries are dropped, the entry is stored
CachePut(cache, key, value, time, ttl) ==
    LET keep == { k \in DOMAIN cache : time < cache[k].expires } \cup {key}
    IN  [k \in keep |-> IF k = key THEN Entry(value, time + ttl) ELSE cache[k]]

\* a delete that leaves the entry where it is
CacheDeleteNothing(cache, key) == cache

\* del cache[key] guarded by `key in cache`
CacheDelete(cache, key) ==
    [k \in DOMAIN cache \ {key} |-> cache[k]]

\* ------------------------------------------------------------ session
\* _ensure_session: a session is created only when there is none; a closed
\* session object is still a session
EnsureSession(s) == IF s = "none" THEN "open" ELSE s

\* ----------------------------------------------------------- operations
NoOp == [kind |-> "none", st |-> "idle"]

\* SteamAPI.__init__
InitApi ==
    /\ credentials = TRUE
    /\ session = "none"
    /\ sem_value = MAX_API_REQUESTS
    /\ sem_waiters = << >>
    /\ achievement_cache = NoCache
    /\ schema_cache = NoCache
    /\ detail_files = [a \in Apps |-> NoFile]
    /\ ops = [o \in Ops |-> NoOp]

\* the document an earlier recomputation left: one game, all unlocked
InitDoc ==
    BuildResult(Library(FlaggedGames, 0),
                Accumulate(NoAcc,
                           [ProcessGameResult(FlaggedGames[1],
                                              GetAchievements(1, "summary"))
                            EXCEPT !.header_image = HeaderImage("details")]),
                T0 - (PROGRESS_FILE_TTL - PROGRESS_CALCULATION))

\* a cache document whose total_achievements is null
MalformedDoc == [InitDoc EXCEPT !.total_achievements = Null]

InitLocals ==
    /\ pc = [c \in Calls |-> "idle"]
    /\ force = [c \in Calls |-> FALSE]
    /\ cached = [c \in Calls |-> None]
    /\ owned = [c \in Calls |-> NoOwned]
    /\ games = [c \in Calls |-> << >>]
    /\ tasks = [c \in Calls |-> << >>]
    /\ acc = [c \in Calls |-> NoAcc]
    /\ result = [c \in Calls |-> None]
    /\ ret = [c \in Calls |-> None]

\* ---------------------------------------------------------------- plugin
\* the calls of set_steam_api_key that are followed
NKeyCalls == 2
KeyCalls == 1..NKeyCalls

\* the API keys the user enters, and the user's Steam id
Keys == {"k1", "k2"}
UserId == "76561198000000000"
\* a setting that is None
Unset == ""

\* SteamAPI(api_key, steam_id, cache_dir): the n-th client object created
Client(n, key, user) == [id |-> n, api_key |-> key, steam_id |-> user]

\* settings.json holding the two settings
Settings(key, user) ==
    [exists |-> TRUE, steam_api_key |-> key, steam_user_id |-> user]

NoKeyCall == [st |-> "idle", api_key |-> Unset, client |-> 0, ret |-> FALSE]

\* Plugin._main has run with key k1 and the user id in the settings
InitPlugin ==
    /\ steam_api_key = "k1"
    /\ current_user_id = UserId
    /\ settings_file = Settings("k1", UserId)
    /\ api = Client(1, "k1", UserId)
    /\ closed_clients = {}
    /\ key_calls = [p \in KeyCalls |-> NoKeyCall]

\* AchievementService.__init__ / _init_progress_tracking
InitService ==
    /\ locked = FALSE
    /\ waiters = << >>
    /\ is_processing = FALSE
    /\ processing_start_time = 0

Init ==
    /\ configured \in BOOLEAN
    /\ now = T0
    /\ library \in { Library(FlaggedGames, n) : n \in PlainCounts }
    /\ cacheFile \in {NoFile, File(InitDoc.last_updated, InitDoc)}
    /\ InitService
    /\ InitLocals
    /\ InitPlugin
    /\ InitApi

\* ------------------------------------------------------------- helpers
ErrorResult(msg) == Some([error |-> msg])

\* the call is between entering the locked section and returning
ComputingPcs == {"read_cache", "validate", "owned_games", "fanout", "save"}
InLock == {"read_cache", "validate", "owned_games"}

\* return from get_achievement_progress: the frame is dropped (owned keeps
\* the last answer of get_owned_games until the next call)
Return(c, value) ==
    /\ pc' = [pc EXCEPT ![c] = "done"]
    /\ ret' = [ret EXCEPT ![c] = value]
    /\ force' = [force EXCEPT ![c] = FALSE]
    /\ cached' = [cached EXCEPT ![c] = None]
    /\ games' = [games EXCEPT ![c] = << >>]
    /\ tasks' = [tasks EXCEPT ![c] = << >>]
    /\ acc' = [acc EXCEPT ![c] = NoAcc]

\* the locked section reading the cache whatever force_refresh is
EnterLockedReadingCache(c, f) ==
    /\ locked' = TRUE
    /\ is_processing' = TRUE
    /\ processing_start_time' = now
    /\ pc' = [pc EXCEPT ![c] = "read_cache"]

\* lines 172-181/194: the lock is taken; the flag and the start time are set,
\* then the call awaits the cache (force_refresh = false) or the catalog
EnterLocked(c, f) ==
    /\ locked' = TRUE
    /\ is_processing' = TRUE
    /\ processing_start_time' = now
    /\ pc' = [pc EXCEPT ![c] = IF f THEN "owned_games" ELSE "read_cache"]

\* the answer of a call that is turned away: the cache, or "in progress"
BlockedAnswer(file, time) ==
    IF GetOverallProgress(file, time).some
    THEN Some(ValidateProgressData(GetOverallProgress(file, time).val))
    ELSE ErrorResult("Progress calculation in progress, try again later")

\* the safety timeout has passed since the flag was set
TimedOut == now - processing_start_time > PROGRESS_CALCULATION

\* ------------------------------------------------------------- actions
\* get_achievement_progress(force_refresh = f) up to its first await
GetAchievementProgress(c, f) ==
    /\ pc[c] \in {"idle", "done"}
    /\ result' = [result EXCEPT ![c] = None]
    /\ owned' = [owned EXCEPT ![c] = NoOwned]
    /\ UNCHANGED << configured, now, library, cacheFile >>
    /\ IF ~configured
       THEN /\ Return(c, ErrorResult("Not configured"))
            /\ UNCHANGED << locked, waiters, is_processing, processing_start_time >>
       ELSE /\ force' = [force EXCEPT ![c] = f]
            /\ ret' = [ret EXCEPT ![c] = None]
            /\ UNCHANGED << cached, games, tasks, acc >>
            /\ IF ~f /\ is_processing /\ ~TimedOut
               THEN /\ pc' = [pc EXCEPT ![c] = "blocked"]
                    /\ UNCHANGED << locked, waiters, is_processing,
                                    processing_start_time >>
               ELSE IF locked /\ ~f
               THEN /\ pc' = [pc EXCEPT ![c] = "blocked"]
                    /\ is_processing' = FALSE
                    /\ UNCHANGED << locked, waiters, processing_start_time >>
               ELSE IF ~locked /\ waiters = << >>
               THEN /\ EnterLocked(c, f)
                    /\ UNCHANGED waiters
               ELSE /\ pc' = [pc EXCEPT ![c] = "wait_lock"]
                    /\ waiters' = Append(waiters, c)
                    /\ is_processing' = (is_processing /\ f)
                    /\ UNCHANGED << locked, processing_start_time >>
    /\ UNCHANGED apiVars
    /\ UNCHANGED pluginVars

\* a call suspended in _progress_lock.acquire() is handed the released lock
LockAcquired(c) ==
    /\ pc[c] = "wait_lock"
    /\ ~locked
    /\ waiters # << >>
    /\ Head(waiters) = c
    /\ waiters' = Tail(waiters)
    /\ EnterLocked(c, force[c])
    /\ UNCHANGED << configured, now, library, cacheFile,
                    force, cached, owned, games, tasks, acc, result, ret >>
    /\ UNCHANGED apiVars
    /\ UNCHANGED pluginVars

\* lines 157-161 and 166-170: the turned-away call has read the cache
BlockedReturn(c) ==
    /\ pc[c] = "blocked"
    /\ Return(c, BlockedAnswer(cacheFile, now))
    /\ UNCHANGED << shared, owned, result >>
    /\ UNCHANGED apiVars
    /\ UNCHANGED pluginVars

\* lines 178-181: cached_data has been read inside the lock
ReadCache(c) ==
    /\ pc[c] = "read_cache"
    /\ cached' = [cached EXCEPT ![c] = GetOverallProgress(cacheFile, now)]
    /\ pc' = [pc EXCEPT ![c] =
                 IF GetOverallProgress(cacheFile, now).some
                 THEN "validate" ELSE "owned_games"]
    /\ UNCHANGED << shared, force, owned, games, tasks, acc, result, ret >>
    /\ UNCHANGED apiVars
    /\ UNCHANGED pluginVars

\* the game count of the cache is close enough to the live one
CountMatches(response, doc) ==
    /\ ~OwnedGamesFailed(response)
    /\ Abs(Len(GamesOf(response)) - Get(doc, "total_games", 0))
           <= GAME_COUNT_TOLERANCE

\* lines 181-191: the catalog fetched to validate the cache has arrived
ValidateCount(c, kind) ==
    /\ pc[c] = "validate"
    /\ UNCHANGED << configured, now, library, cacheFile, waiters,
                    processing_start_time, result >>
    /\ owned' = [owned EXCEPT ![c] = OwnedGames(kind, library)]
    /\ LET response == OwnedGames(kind, library)
       IN  IF kind = "raise"
           THEN /\ locked' = FALSE
                /\ is_processing' = FALSE
                /\ Return(c, ErrorResult("Failed to calculate progress"))
           ELSE IF CountMatches(response, cached[c].val)
           THEN /\ locked' = FALSE
                /\ is_processing' = FALSE
                /\ Return(c, Some(ValidateProgressData(cached[c].val)))
           ELSE /\ pc' = [pc EXCEPT ![c] = "owned_games"]
                /\ cached' = [cached EXCEPT ![c] = None]
                /\ UNCHANGED << locked, is_processing, force, games, tasks,
                                acc, ret >>
    /\ UNCHANGED apiVars
    /\ UNCHANGED pluginVars

\* the tasks of the fan-out, all of them let into process_game at once
NewTasksUngated(withStats) ==
    [i \in 1..Len(withStats) |->
        [game |-> withStats[i], st |-> "ach", failed |-> FALSE, res |-> NoResult]]

\* the tasks of the fan-out: the first MAX_GAMES hold the semaphore and are
\* fetching, the others wait for it; `failed` records that get_achievements
\* answered with a failure (an exception or an error result of the client)
NewTasks(withStats) ==
    [i \in 1..Len(withStats) |->
        [game |-> withStats[i],
         st |-> IF i <= MAX_GAMES THEN "ach" ELSE "wait",
         failed |-> FALSE,
         res |-> NoResult]]

\* a task leaving `async with semaphore` without letting a waiting task in
ReleaseSemaphoreKeeping(ts) == ts

\* a task left `async with semaphore`: the first waiting task enters
ReleaseSemaphore(ts) ==
    LET waiting == { i \in 1..Len(ts) : ts[i].st = "wait" }
    IN  IF waiting = {} THEN ts
        ELSE LET first == CHOOSE i \in waiting : \A j \in waiting : i <= j
             IN  [ts EXCEPT ![first].st = "ach"]

\* lines 194-256: the catalog of the recomputation has arrived; on success
\* the lock is left and the fan-out starts
FetchOwnedGames(c, kind) ==
    /\ pc[c] = "owned_games"
    /\ locked' = FALSE
    /\ owned' = [owned EXCEPT ![c] = OwnedGames(kind, library)]
    /\ UNCHANGED << configured, now, library, cacheFile, waiters,
                    processing_start_time >>
    /\ LET response == OwnedGames(kind, library)
           gamesList == GamesOf(response)
       IN  IF kind = "raise"
           THEN /\ is_processing' = FALSE
                /\ Return(c, ErrorResult("Failed to calculate progress"))
                /\ UNCHANGED result
           ELSE IF OwnedGamesFailed(response)
           THEN /\ Return(c, ErrorResult("Failed to get owned games"))
                /\ UNCHANGED << is_processing, result >>
           ELSE /\ games' = [games EXCEPT ![c] = gamesList]
                /\ tasks' = [tasks EXCEPT ![c] = NewTasks(GamesWithStats(gamesList))]
                /\ acc' = [acc EXCEPT ![c] = NoAcc]
                /\ cached' = [cached EXCEPT ![c] = None]
                /\ IF GamesWithStats(gamesList) = << >>
                   THEN /\ result' = [result EXCEPT ![c] =
                                         Some(BuildResult(gamesList, NoAcc, now))]
                        /\ pc' = [pc EXCEPT ![c] = "save"]
                   ELSE /\ pc' = [pc EXCEPT ![c] = "fanout"]
                        /\ UNCHANGED result
                /\ UNCHANGED << is_processing, force, ret >>
    /\ UNCHANGED apiVars
    /\ UNCHANGED pluginVars

\* process_game, lines 223-247: get_achievements has returned
ProcessGameAchievements(c, i, outcome) ==
    /\ i \in 1..Len(tasks[c])
    /\ tasks[c][i].st = "ach"
    /\ LET game == tasks[c][i].game
           r == ProcessGameResult(game, GetAchievements(game.appid, outcome))
           bad == outcome # "summary"
       IN  tasks' = [tasks EXCEPT ![c] =
               IF r.ok /\ r.is_perfect
               THEN [@ EXCEPT ![i].st = "det", ![i].failed = bad, ![i].res = r]
               ELSE ReleaseSemaphore([@ EXCEPT ![i].st = "done",
                                               ![i].failed = bad, ![i].res = r])]
    /\ UNCHANGED << shared, pc, force, cached, owned, games, acc, result, ret >>
    /\ UNCHANGED apiVars
    /\ UNCHANGED pluginVars

\* process_game giving up the game when its metadata cannot be fetched
ProcessGameDetailsDropping(c, i, outcome) ==
    /\ i \in 1..Len(tasks[c])
    /\ tasks[c][i].st = "det"
    /\ tasks' = [tasks EXCEPT ![c] =
           ReleaseSemaphore(
               IF outcome = "details"
               THEN [@ EXCEPT ![i].st = "done",
                              ![i].res.header_image = HeaderImage(outcome)]
               ELSE [@ EXCEPT ![i].st = "done", ![i].res = NoResult])]
    /\ UNCHANGED << shared, pc, force, cached, owned, games, acc, result, ret >>
    /\ UNCHANGED apiVars
    /\ UNCHANGED pluginVars

\* process_game, lines 236-243: get_app_details of a perfect game has returned
ProcessGameDetails(c, i, outcome) ==
    /\ i \in 1..Len(tasks[c])
    /\ tasks[c][i].st = "det"
    /\ tasks' = [tasks EXCEPT ![c] =
           ReleaseSemaphore([@ EXCEPT ![i].st = "done",
                                      ![i].res.header_image = HeaderImage(outcome)])]
    /\ UNCHANGED << shared, pc, force, cached, owned, games, acc, result, ret >>
    /\ UNCHANGED apiVars
    /\ UNCHANGED pluginVars

\* lines 256-301: the loop takes the result of a finished task; after the
\* last one the result dict is built and the call awaits the cache write
Consume(c, i) ==
    /\ pc[c] = "fanout"
    /\ i \in 1..Len(tasks[c])
    /\ tasks[c][i].st = "done"
    /\ LET acc1 == Accumulate(acc[c], tasks[c][i].res)
           ts1 == [tasks[c] EXCEPT ![i].st = "consumed"]
       IN  /\ acc' = [acc EXCEPT ![c] = acc1]
           /\ tasks' = [tasks EXCEPT ![c] = ts1]
           /\ IF \A j \in 1..Len(ts1) : ts1[j].st = "consumed"
              THEN /\ result' = [result EXCEPT ![c] =
                                    Some(BuildResult(games[c], acc1, now))]
                   /\ pc' = [pc EXCEPT ![c] = "save"]
              ELSE UNCHANGED << result, pc >>
    /\ UNCHANGED << shared, force, cached, owned, games, ret >>
    /\ UNCHANGED apiVars
    /\ UNCHANGED pluginVars

\* a failed write of the cache taken as a failure of the call
SaveOverallProgressFailing(c, written) ==
    /\ pc[c] = "save"
    /\ cacheFile' = IF written THEN File(now, result[c].val) ELSE cacheFile
    /\ is_processing' = FALSE
    /\ Return(c, IF written THEN Some(ValidateProgressData(result[c].val))
                 ELSE ErrorResult("Failed to calculate progress"))
    /\ achievement_cache' = NoCache
    /\ schema_cache' = NoCache
    /\ UNCHANGED << configured, now, library, locked, waiters,
                    processing_start_time, owned, result >>
    /\ UNCHANGED << credentials, session, sem_value, sem_waiters,
                    detail_files, ops >>
    /\ UNCHANGED pluginVars

\* the return of a recomputation that leaves the client's caches alone
SaveOverallProgressKeepingCaches(c, written) ==
    /\ pc[c] = "save"
    /\ cacheFile' = IF written THEN File(now, result[c].val) ELSE cacheFile
    /\ is_processing' = FALSE
    /\ Return(c, Some(ValidateProgressData(result[c].val)))
    /\ UNCHANGED << configured, now, library, locked, waiters,
                    processing_start_time, owned, result >>
    /\ UNCHANGED apiVars
    /\ UNCHANGED pluginVars

\* lines 304-320: save_overall_progress has returned (a failed write is
\* logged by the cache service); the client's two caches are emptied by
\* clear_all_caches, the flag is cleared and the result returned
SaveOverallProgress(c, written) ==
    /\ pc[c] = "save"
    /\ cacheFile' = IF written THEN File(now, result[c].val) ELSE cacheFile
    /\ is_processing' = FALSE
    /\ Return(c, Some(ValidateProgressData(result[c].val)))
    /\ achievement_cache' = NoCache
    /\ schema_cache' = NoCache
    /\ UNCHANGED << configured, now, library, locked, waiters,
                    processing_start_time, owned, result >>
    /\ UNCHANGED << credentials, session, sem_value, sem_waiters,
                    detail_files, ops >>
    /\ UNCHANGED pluginVars

\* ------------------------------------------------------- environment
\* time passes
Tick ==
    /\ \E t \in ClockValues : t > now /\ now' = t
    /\ UNCHANGED << configured, library, cacheFile, locked, waiters,
                    is_processing, processing_start_time, locals >>
    /\ UNCHANGED apiVars
    /\ UNCHANGED pluginVars

Next ==
    \/ \E c \in Calls, f \in BOOLEAN : GetAchievementProgress(c, f)
    \/ \E c \in Calls : LockAcquired(c)
    \/ \E c \in Calls : BlockedReturn(c)
    \/ \E c \in Calls : ReadCache(c)
    \/ \E c \in Calls, kind \in CatalogOutcomes : ValidateCount(c, kind)
    \/ \E c \in Calls, kind \in CatalogOutcomes : FetchOwnedGames(c, kind)
    \/ \E c \in Calls, i \in 1..Len(FlaggedGames), o \in FetchOutcomes :
          ProcessGameAchievements(c, i, o)
    \/ \E c \in Calls, i \in 1..Len(FlaggedGames), o \in DetailOutcomes :
          ProcessGameDetails(c, i, o)
    \/ \E c \in Calls, i \in 1..Len(FlaggedGames) : Consume(c, i)
    \/ \E c \in Calls, w \in BOOLEAN : SaveOverallProgress(c, w)
    \/ Tick

Spec == Init /\ [][Next]_vars

\* ---------------------------------------------------------------------
\* One caller and a library of three flagged games: one with every
\* achievement unlocked, one partly unlocked, one without achievements.
\* The totals and the tasks are locals of the call, so other calls do not
\* touch them.
\* the first call
Caller == CHOOSE c \in Calls : \A d \in Calls : c <= d

InitFanout ==
    /\ configured = TRUE
    /\ now = T0
    /\ library \in { Library(FanoutGames, n) : n \in 0..1 }
    /\ cacheFile \in {NoFile, File(InitDoc.last_updated, InitDoc),
                      File(InitDoc.last_updated, MalformedDoc)}
    /\ InitService
    /\ InitLocals
    /\ InitPlugin
    /\ InitApi

NextFanout ==
    \/ \E f \in BOOLEAN : GetAchievementProgress(Caller, f)
    \/ BlockedReturn(Caller)
    \/ ReadCache(Caller)
    \/ \E kind \in CatalogOutcomes : ValidateCount(Caller, kind)
    \/ \E kind \in CatalogOutcomes : FetchOwnedGames(Caller, kind)
    \/ \E i \in 1..Len(FanoutGames), o \in FetchOutcomes :
          ProcessGameAchievements(Caller, i, o)
    \/ \E i \in 1..Len(FanoutGames), o \in DetailOutcomes :
          ProcessGameDetails(Caller, i, o)
    \/ \E i \in 1..Len(FanoutGames) : Consume(Caller, i)
    \/ \E w \in BOOLEAN : SaveOverallProgress(Caller, w)
    \/ Tick

SpecFanout == InitFanout /\ [][NextFanout]_vars

\* ---------------------------------------------------------------------
\* The SteamAPI client: operations on one client instance, interleaved at
\* their awaits.
\* the request pool, as the pair the semaphore code works on
Pool(value, queue, opsNow) == [value |-> value, waiters |-> queue, ops |-> opsNow]

\* the state in which an operation holds a permit and its request is out
RequestState(st) ==
    CASE st = "wait_player" -> "player"
      [] st = "wait_schema" -> "schema"
      [] st = "wait_global" -> "global"
      [] st = "wait_get" -> "get"
      [] OTHER -> st

\* `async with self._request_semaphore`, entry: take a free permit at once,
\* or queue behind the operations already waiting
Acquire(S, o, wait) ==
    IF S.value > 0 /\ S.waiters = << >>
    THEN [S EXCEPT !.value = @ - 1, !.ops[o].st = RequestState(wait)]
    ELSE [S EXCEPT !.waiters = Append(@, o), !.ops[o].st = wait]

\* leaving the `async with` without giving the permit back
ReleaseLeaking(S) == S

\* `async with self._request_semaphore`, exit: the permit goes to the first
\* waiting operation, or back to the pool
Release(S) ==
    IF S.waiters = << >>
    THEN [S EXCEPT !.value = @ + 1]
    ELSE [S EXCEPT !.waiters = Tail(@),
                   !.ops[Head(S.waiters)].st = RequestState(@)]

\* the operation returns `value`
Done(op, value) == [kind |-> op.kind, st |-> "done", ret |-> value]

\* the three parts of a pool are written back
SetPool(S) ==
    /\ sem_value' = S.value
    /\ sem_waiters' = S.waiters
    /\ ops' = S.ops

\* get_player_achievements(app, user) up to its first await
GetPlayerAchievements(o, app, user) ==
    /\ ops[o].st \in {"idle", "done"}
    /\ LET key == AchievementKey(app, user)
           hit == CacheGet(achievement_cache, key, now)
           started == [kind |-> "player_achievements", st |-> "idle",
                       app |-> app, user |-> user]
       IN  IF ~credentials
           THEN /\ ops' = [ops EXCEPT ![o] =
                       Done(started, [error |-> "Missing API key or Steam ID"])]
                /\ UNCHANGED << session, sem_value, sem_waiters >>
           ELSE IF hit.some
           THEN /\ ops' = [ops EXCEPT ![o] = Done(started, hit.val)]
                /\ UNCHANGED << session, sem_value, sem_waiters >>
           ELSE /\ session' = EnsureSession(session)
                /\ SetPool(Acquire(Pool(sem_value, sem_waiters,
                                        [ops EXCEPT ![o] = started]),
                                   o, "wait_player"))
    /\ UNCHANGED << credentials, achievement_cache, schema_cache, detail_files,
                    serviceVars >>
    /\ UNCHANGED pluginVars

\* lines 361-366 and 290-304: the player-state request has ended; an error
\* ends the operation, otherwise the schema comes from its cache or a request
PlayerResponse(o, outcome, body) ==
    /\ ops[o].st = "player"
    /\ LET raw == PlayerRaw(HttpGet(outcome, body))
           S == Release(Pool(sem_value, sem_waiters, ops))
           cachedSchema == CacheGet(schema_cache, SchemaKey(ops[o].app), now)
       IN  IF "error" \in DOMAIN raw
           THEN SetPool([S EXCEPT !.ops[o] = Done(ops[o], raw)])
           ELSE LET withPlayer ==
                        [kind |-> "player_achievements", st |-> "player",
                         app |-> ops[o].app, user |-> ops[o].user,
                         player |-> Get(raw.playerstats, "achievements",
                                        [n \in {} |-> 0])]
                IN  IF cachedSchema.some
                    THEN SetPool(Acquire(
                             [S EXCEPT !.ops[o] =
                                 [f \in DOMAIN withPlayer \cup {"names"} |->
                                     IF f = "names" THEN cachedSchema.val
                                     ELSE withPlayer[f]]],
                             o, "wait_global"))
                    ELSE SetPool(Acquire([S EXCEPT !.ops[o] = withPlayer],
                                         o, "wait_schema"))
    /\ UNCHANGED << credentials, session, achievement_cache, schema_cache,
                    detail_files, serviceVars >>
    /\ UNCHANGED pluginVars

\* lines 301-311 and 366-388: the schema request has ended; a schema is
\* cached, a failure ends the operation
SchemaResponse(o, outcome) ==
    /\ ops[o].st = "schema"
    /\ LET response == HttpGet(outcome, SchemaOf(ops[o].app))
           S == Release(Pool(sem_value, sem_waiters, ops))
       IN  IF ~response.some
           THEN /\ SetPool([S EXCEPT !.ops[o] =
                       Done(ops[o], [error |-> "Failed to get schema"])])
                /\ UNCHANGED schema_cache
           ELSE /\ schema_cache' = CachePut(schema_cache, SchemaKey(ops[o].app),
                                            response.val, now, SCHEMA_TTL)
                /\ SetPool(Acquire(
                       [S EXCEPT !.ops[o] =
                           [f \in DOMAIN ops[o] \cup {"names"} |->
                               IF f = "names" THEN response.val ELSE ops[o][f]]],
                       o, "wait_global"))
    /\ UNCHANGED << credentials, session, achievement_cache, detail_files,
                    serviceVars >>
    /\ UNCHANGED pluginVars

\* the global-percentage request has ended and whatever summary was built is
\* cached, the zero-total one included
GlobalResponseCachingAll(o, outcome, body) ==
    /\ ops[o].st = "global"
    /\ LET response == HttpGet(outcome, body)
           global_achs == IF response.some THEN response.val ELSE NoGlobal
           summary == Summary(ops[o].app, ops[o].player, ops[o].names, global_achs)
           S == Release(Pool(sem_value, sem_waiters, ops))
       IN  /\ SetPool([S EXCEPT !.ops[o] = Done(ops[o], summary)])
           /\ achievement_cache' =
                 CachePut(achievement_cache,
                          AchievementKey(ops[o].app, ops[o].user),
                          summary, now, ACHIEVEMENT_TTL)
    /\ UNCHANGED << credentials, session, schema_cache, detail_files,
                    serviceVars >>
    /\ UNCHANGED pluginVars

\* lines 385-466: the global-percentage request has ended; the summary is
\* built, cached unless the schema has no achievements, and returned
GlobalResponse(o, outcome, body) ==
    /\ ops[o].st = "global"
    /\ LET response == HttpGet(outcome, body)
           global_achs == IF response.some THEN response.val ELSE NoGlobal
           summary == Summary(ops[o].app, ops[o].player, ops[o].names, global_achs)
           S == Release(Pool(sem_value, sem_waiters, ops))
       IN  /\ SetPool([S EXCEPT !.ops[o] = Done(ops[o], summary)])
           /\ achievement_cache' =
                 IF "error" \in DOMAIN summary THEN achievement_cache
                 ELSE CachePut(achievement_cache,
                               AchievementKey(ops[o].app, ops[o].user),
                               summary, now, ACHIEVEMENT_TTL)
    /\ UNCHANGED << credentials, session, schema_cache, detail_files,
                    serviceVars >>
    /\ UNCHANGED pluginVars

\* the entries of the app dropped for every user
ClearedAchievementsAnyUser(cache, app) ==
    IF app # 0
    THEN [k \in { j \in DOMAIN cache : j[1] # app } |-> cache[k]]
    ELSE NoCache

\* what clear_memory_cache(app_id) leaves of the achievement cache and of
\* the schema cache; app_id = 0 stands for no argument
ClearedAchievements(cache, app) ==
    IF app # 0 THEN CacheDelete(cache, AchievementKey(app, "self")) ELSE NoCache

ClearedSchemas(cache, app) ==
    IF app # 0 THEN CacheDelete(cache, PlainKey(app)) ELSE NoCache

\* clear_memory_cache(app_id)
ClearMemoryCache(app) ==
    /\ achievement_cache' = ClearedAchievements(achievement_cache, app)
    /\ schema_cache' = ClearedSchemas(schema_cache, app)
    /\ UNCHANGED << credentials, session, sem_value, sem_waiters, ops,
                    detail_files, serviceVars >>
    /\ UNCHANGED pluginVars

InitClient ==
    /\ configured = TRUE
    /\ now = T0
    /\ library = Library(FlaggedGames, 0)
    /\ cacheFile = NoFile
    /\ InitService
    /\ InitLocals
    /\ InitPlugin
    /\ InitApi

\* the summaries that are asked for: both apps for the client's own user,
\* app 1 for another user as well
Requests == { << 1, "self" >>, << 2, "self" >>, << 1, "other" >> }

\* the bodies a request can be answered with: only a 200 carries one
BodiesOf(outcome, bodies) == IF outcome = "ok" THEN bodies ELSE {NoGlobal}

NextClient ==
    \/ \E o \in Ops, r \in Requests : GetPlayerAchievements(o, r[1], r[2])
    \/ \E o \in Ops, outcome \in GetOutcomes :
          \E body \in BodiesOf(outcome, PlayerBodies) :
              PlayerResponse(o, outcome, body)
    \/ \E o \in Ops, outcome \in GetOutcomes : SchemaResponse(o, outcome)
    \/ \E o \in Ops, outcome \in GetOutcomes :
          \E body \in BodiesOf(outcome, GlobalBodies) :
              GlobalResponse(o, outcome, body)
    \/ \E app \in Apps \cup {0} : ClearMemoryCache(app)
    \/ Tick

SpecClient == InitClient /\ [][NextClient]_vars

\* ---------------------------------------------------------------------
\* The catalog and the store metadata lookups of the client.
\* get_owned_games() sending its request whatever the credentials
GetOwnedGamesUnchecked(o) ==
    /\ ops[o].st \in {"idle", "done"}
    /\ session' = EnsureSession(session)
    /\ SetPool(Acquire(Pool(sem_value, sem_waiters,
                            [ops EXCEPT ![o] = [kind |-> "owned_games",
                                                st |-> "idle"]]),
                       o, "wait_get"))
    /\ UNCHANGED << credentials, achievement_cache, schema_cache, detail_files,
                    serviceVars >>
    /\ UNCHANGED pluginVars

\* get_owned_games() up to its first await
GetOwnedGames(o) ==
    /\ ops[o].st \in {"idle", "done"}
    /\ LET started == [kind |-> "owned_games", st |-> "idle"]
       IN  IF ~credentials
           THEN /\ ops' = [ops EXCEPT ![o] =
                       Done(started, [error |-> "Missing API key or Steam ID"])]
                /\ UNCHANGED << session, sem_value, sem_waiters >>
           ELSE /\ session' = EnsureSession(session)
                /\ SetPool(Acquire(Pool(sem_value, sem_waiters,
                                        [ops EXCEPT ![o] = started]),
                                   o, "wait_get"))
    /\ UNCHANGED << credentials, achievement_cache, schema_cache, detail_files,
                    serviceVars >>
    /\ UNCHANGED pluginVars

\* lines 94-112 and 190: the catalog request has ended
OwnedGamesResponse(o, outcome) ==
    /\ ops[o].st = "get"
    /\ LET response == HttpGet(outcome, OwnedGames("ok", library))
           S == Release(Pool(sem_value, sem_waiters, ops))
       IN  SetPool([S EXCEPT !.ops[o] =
               Done(ops[o], IF response.some THEN response.val
                            ELSE OwnedGames("error", library))])
    /\ UNCHANGED << credentials, session, achievement_cache, schema_cache,
                    detail_files, serviceVars >>
    /\ UNCHANGED pluginVars

\* the bodies of the store's appdetails
DetailBodies == { [success |-> TRUE, header_image |-> "header.jpg"],
                  [success |-> FALSE] }

\* the record get_app_details builds from a successful body
DetailInfo(app, body) ==
    [app_id |-> app, name |-> "Game", has_achievements |-> TRUE,
     header_image |-> body.header_image]

\* the fallback record
DetailFallback(app) ==
    [app_id |-> app, name |-> "App", has_achievements |-> FALSE,
     total_achievements |-> 0]

\* get_app_details(app) returning the file whatever its age
GetAppDetailsIgnoringAge(o, app) ==
    /\ ops[o].st \in {"idle", "done"}
    /\ LET file == detail_files[app]
           started == [kind |-> "app_details", st |-> "details", app |-> app]
       IN  IF file.exists
           THEN /\ ops' = [ops EXCEPT ![o] = Done(started, file.doc)]
                /\ UNCHANGED session
           ELSE /\ ops' = [ops EXCEPT ![o] = started]
                /\ session' = EnsureSession(session)
    /\ UNCHANGED << credentials, sem_value, sem_waiters, achievement_cache,
                    schema_cache, detail_files, serviceVars >>
    /\ UNCHANGED pluginVars

\* get_app_details(app) up to its request: a young enough file is returned,
\* otherwise the request is sent on the session
GetAppDetails(o, app) ==
    /\ ops[o].st \in {"idle", "done"}
    /\ LET file == detail_files[app]
           started == [kind |-> "app_details", st |-> "details", app |-> app]
       IN  IF file.exists /\ now - file.mtime < APP_DETAILS_TTL
           THEN /\ ops' = [ops EXCEPT ![o] = Done(started, file.doc)]
                /\ UNCHANGED session
           ELSE /\ ops' = [ops EXCEPT ![o] = started]
                /\ session' = EnsureSession(session)
    /\ UNCHANGED << credentials, sem_value, sem_waiters, achievement_cache,
                    schema_cache, detail_files, serviceVars >>
    /\ UNCHANGED pluginVars

\* lines 491-518: the store request has ended
AppDetailsResponse(o, outcome, body, written) ==
    /\ ops[o].st = "details"
    /\ LET app == ops[o].app
       IN  IF outcome = "raise"
           THEN /\ ops' = [ops EXCEPT ![o] =
                       Done(ops[o], [error |-> "Failed to fetch app details"])]
                /\ UNCHANGED detail_files
           ELSE IF outcome = "ok" /\ body.success
           THEN /\ ops' = [ops EXCEPT ![o] = Done(ops[o], DetailInfo(app, body))]
                /\ detail_files' =
                      IF written
                      THEN [detail_files EXCEPT ![app] =
                               File(now, DetailInfo(app, body))]
                      ELSE detail_files
           ELSE /\ ops' = [ops EXCEPT ![o] = Done(ops[o], DetailFallback(app))]
                /\ UNCHANGED detail_files
    /\ UNCHANGED << credentials, session, sem_value, sem_waiters,
                    achievement_cache, schema_cache, serviceVars >>
    /\ UNCHANGED pluginVars

\* a metadata file written long enough ago to expire on the first tick
OldDetailFile(app) ==
    File(T0 - (APP_DETAILS_TTL - PROGRESS_CALCULATION),
         DetailInfo(app, [success |-> TRUE, header_image |-> "old.jpg"]))

InitDetails ==
    /\ configured = TRUE
    /\ now = T0
    /\ library = Library(FlaggedGames, 0)
    /\ cacheFile = NoFile
    /\ InitService
    /\ InitLocals
    /\ InitPlugin
    /\ credentials = TRUE
    /\ session = "none"
    /\ sem_value = MAX_API_REQUESTS
    /\ sem_waiters = << >>
    /\ achievement_cache = NoCache
    /\ schema_cache = NoCache
    /\ detail_files \in { [a \in Apps |-> NoFile],
                         [a \in Apps |-> IF a = 1 THEN OldDetailFile(a) ELSE NoFile] }
    /\ ops = [o \in Ops |-> NoOp]

NextDetails ==
    \/ \E o \in Ops : GetOwnedGames(o)
    \/ \E o \in Ops, outcome \in GetOutcomes : OwnedGamesResponse(o, outcome)
    \/ \E o \in Ops, app \in Apps : GetAppDetails(o, app)
    \/ \E o \in Ops, outcome \in GetOutcomes, w \in BOOLEAN :
          \E body \in BodiesOf(outcome, DetailBodies) :
              AppDetailsResponse(o, outcome, body, w)
    \/ Tick

SpecDetails == InitDetails /\ [][NextDetails]_vars

\* ---------------------------------------------------------------------
\* More catalog requests at once than the request pool has permits.
InitPool ==
    /\ configured = TRUE
    /\ now = T0
    /\ library = Library(FlaggedGames, 0)
    /\ cacheFile = NoFile
    /\ InitService
    /\ InitLocals
    /\ InitPlugin
    /\ credentials = TRUE
    /\ session = "none"
    /\ sem_value = MAX_API_REQUESTS
    /\ sem_waiters = << >>
    /\ achievement_cache = NoCache
    /\ schema_cache = NoCache
    /\ detail_files = [a \in Apps |-> NoFile]
    /\ ops = [o \in PoolOps |-> NoOp]

NextPool ==
    \/ \E o \in PoolOps : GetOwnedGames(o)
    \/ \E o \in PoolOps, outcome \in GetOutcomes : OwnedGamesResponse(o, outcome)

SpecPool == InitPool /\ [][NextPool]_vars

\* ---------------------------------------------------------------------
\* One forced recomputation over one flagged game more than the game gate
\* lets in: a perfect game, a partly unlocked game, and games without
\* achievements.  The tasks are taken in the order of their index (the
\* running task of lowest index ends first, the finished task of lowest
\* index is consumed first), which leaves the number of tasks inside the
\* gate as it is in any other order.
GateGames == [k \in 1..(MAX_GAMES + 1) |-> Game(k, TRUE)]

InitGate ==
    /\ configured = TRUE
    /\ now = T0
    /\ library = Library(GateGames, 0)
    /\ cacheFile = NoFile
    /\ InitService
    /\ InitLocals
    /\ InitPlugin
    /\ InitApi

\* task i is the first of call c in one of the states sts
FirstIn(c, i, sts) ==
    /\ i \in 1..Len(tasks[c])
    /\ tasks[c][i].st \in sts
    /\ \A j \in 1..(i - 1) : tasks[c][j].st \notin sts

NextGate ==
    \/ GetAchievementProgress(Caller, TRUE)
    \/ \E kind \in CatalogOutcomes : FetchOwnedGames(Caller, kind)
    \/ \E i \in 1..Len(GateGames) :
          FirstIn(Caller, i, {"ach", "det"})
              /\ ProcessGameAchievements(Caller, i, "summary")
    \/ \E i \in 1..Len(GateGames), o \in DetailOutcomes :
          FirstIn(Caller, i, {"ach", "det"}) /\ ProcessGameDetails(Caller, i, o)
    \/ \E i \in 1..Len(GateGames) :
          FirstIn(Caller, i, {"done"}) /\ Consume(Caller, i)
    \/ \E w \in BOOLEAN : SaveOverallProgress(Caller, w)

SpecGate == InitGate /\ [][NextGate]_vars

\* ---------------------------------------------------------------------
\* Shutdown and invalidation of the client.
CACHE_FILE_MAX_AGE == 604800

\* _cleanup_old_cache_files: every game_*.json older than the cutoff is removed
CleanedFiles(files, time) ==
    [a \in DOMAIN files |->
        IF files[a].exists /\ files[a].mtime < time - CACHE_FILE_MAX_AGE
        THEN NoFile
        ELSE files[a]]

\* close() leaving the schema cache as it is
CloseEffectsKeepingSchemas(o, op) ==
    /\ session' = "none"
    /\ achievement_cache' = NoCache
    /\ schema_cache' = schema_cache
    /\ detail_files' = CleanedFiles(detail_files, now)
    /\ configured' = (configured /\ op.kind # "service_close")
    /\ ops' = [ops EXCEPT ![o] = Done(op, None)]

\* SteamAPI.close from `self.session = None` on, and the references that
\* AchievementService.close drops after it
CloseEffects(o, op) ==
    /\ session' = "none"
    /\ achievement_cache' = NoCache
    /\ schema_cache' = NoCache
    /\ detail_files' = CleanedFiles(detail_files, now)
    /\ configured' = (configured /\ op.kind # "service_close")
    /\ ops' = [ops EXCEPT ![o] = Done(op, None)]

\* SteamAPI.close() (kind = "close") or AchievementService.close()
\* (kind = "service_close") up to the await of session.close(); without an
\* open session there is no await.  In the specifications that close the
\* service it starts configured, so ~configured says that self.api is None.
Close(o, kind) ==
    /\ ops[o].st \in {"idle", "done"}
    /\ LET started == [kind |-> kind, st |-> "closing"]
       IN  IF kind = "service_close" /\ ~configured
           THEN /\ ops' = [ops EXCEPT ![o] = Done(started, None)]
                /\ UNCHANGED << session, achievement_cache, schema_cache,
                                detail_files, configured >>
           ELSE IF session = "open"
           THEN /\ session' = "closed"
                /\ ops' = [ops EXCEPT ![o] = started]
                /\ UNCHANGED << achievement_cache, schema_cache, detail_files,
                                configured >>
           ELSE CloseEffects(o, started)
    /\ UNCHANGED << credentials, sem_value, sem_waiters >>
    /\ UNCHANGED << now, library, cacheFile, locked, waiters, is_processing,
                    processing_start_time, locals >>
    /\ UNCHANGED pluginVars

\* session.close() has returned
CloseDone(o) ==
    /\ ops[o].st = "closing"
    /\ CloseEffects(o, ops[o])
    /\ UNCHANGED << credentials, sem_value, sem_waiters >>
    /\ UNCHANGED << now, library, cacheFile, locked, waiters, is_processing,
                    processing_start_time, locals >>
    /\ UNCHANGED pluginVars

\* the operation that issues the requests
FirstOp == CHOOSE o \in Ops : \A p \in Ops : o <= p

\* a metadata file old enough for the cleanup of close()
WeekOldFile(app) ==
    File(T0 - (CACHE_FILE_MAX_AGE + PROGRESS_CALCULATION),
         DetailInfo(app, [success |-> TRUE, header_image |-> "old.jpg"]))

InitCache ==
    /\ configured = TRUE
    /\ now = T0
    /\ library = Library(FlaggedGames, 0)
    /\ cacheFile = NoFile
    /\ InitService
    /\ InitLocals
    /\ InitPlugin
    /\ credentials = TRUE
    /\ session = "none"
    /\ sem_value = MAX_API_REQUESTS
    /\ sem_waiters = << >>
    /\ achievement_cache = NoCache
    /\ schema_cache = NoCache
    /\ detail_files \in
          { [a \in Apps |-> NoFile],
            [a \in Apps |-> IF a = 1 THEN OldDetailFile(a) ELSE WeekOldFile(a)] }
    /\ ops = [o \in Ops |-> NoOp]

\* a request on a session that is closed or gone raises
Answers(outcome) == session = "open" \/ outcome = "raise"

\* one operation issues requests; it and the other one close the client or
\* the service, and the caches are invalidated, at any moment
NextCache ==
    \/ \E r \in Requests : GetPlayerAchievements(FirstOp, r[1], r[2])
    \/ \E outcome \in GetOutcomes :
          \E body \in BodiesOf(outcome, PlayerBodies) :
              Answers(outcome) /\ PlayerResponse(FirstOp, outcome, body)
    \/ \E outcome \in GetOutcomes :
          Answers(outcome) /\ SchemaResponse(FirstOp, outcome)
    \/ \E outcome \in GetOutcomes :
          \E body \in BodiesOf(outcome, GlobalBodies) :
              Answers(outcome) /\ GlobalResponse(FirstOp, outcome, body)
    \/ \E app \in Apps : GetAppDetails(FirstOp, app)
    \/ \E outcome \in GetOutcomes, w \in BOOLEAN :
          \E body \in BodiesOf(outcome, DetailBodies) :
              Answers(outcome) /\ AppDetailsResponse(FirstOp, outcome, body, w)
    \/ \E app \in Apps \cup {0} : ClearMemoryCache(app)
    \/ \E o \in Ops, kind \in {"close", "service_close"} : Close(o, kind)
    \/ \E o \in Ops : CloseDone(o)

SpecCache == InitCache /\ [][NextCache]_vars

\* ---------------------------------------------------------------------
\* The service and its client with or without their credentials: one call
\* of get_achievement_progress at a time, and one operation at a time on the
\* client, for the client's own user.
InitCredentials ==
    /\ configured \in BOOLEAN
    /\ now = T0
    /\ library = Library(FlaggedGames, 0)
    /\ cacheFile = NoFile
    /\ InitService
    /\ InitLocals
    /\ InitPlugin
    /\ credentials \in BOOLEAN
    /\ session = "none"
    /\ sem_value = MAX_API_REQUESTS
    /\ sem_waiters = << >>
    /\ achievement_cache = NoCache
    /\ schema_cache = NoCache
    /\ detail_files = [a \in Apps |-> NoFile]
    /\ ops = [o \in Ops |-> NoOp]

NextCredentials ==
    \/ \E f \in BOOLEAN : GetAchievementProgress(Caller, f)
    \/ BlockedReturn(Caller)
    \/ ReadCache(Caller)
    \/ \E kind \in CatalogOutcomes : ValidateCount(Caller, kind)
    \/ \E kind \in CatalogOutcomes : FetchOwnedGames(Caller, kind)
    \/ \E i \in 1..Len(FlaggedGames), o \in FetchOutcomes :
          ProcessGameAchievements(Caller, i, o)
    \/ \E i \in 1..Len(FlaggedGames), o \in DetailOutcomes :
          ProcessGameDetails(Caller, i, o)
    \/ \E i \in 1..Len(FlaggedGames) : Consume(Caller, i)
    \/ \E w \in BOOLEAN : SaveOverallProgress(Caller, w)
    \/ GetPlayerAchievements(FirstOp, 1, "self")
    \/ \E outcome \in GetOutcomes :
          \E body \in BodiesOf(outcome, PlayerBodies) :
              PlayerResponse(FirstOp, outcome, body)
    \/ \E outcome \in GetOutcomes : SchemaResponse(FirstOp, outcome)
    \/ \E outcome \in GetOutcomes :
          \E body \in BodiesOf(outcome, GlobalBodies) :
              GlobalResponse(FirstOp, outcome, body)
    \/ GetOwnedGames(FirstOp)
    \/ \E outcome \in GetOutcomes : OwnedGamesResponse(FirstOp, outcome)

SpecCredentials == InitCredentials /\ [][NextCredentials]_vars

\* ---------------------------------------------------------------------
\* The summaries of get_player_achievements over every combination of a
\* schema (none, one, two or three achievements) and a player-state payload:
\* one operation at a time, for the client's own user.
SummaryApps == {1, 2, 3, 4}

NextSummary ==
    \/ \E app \in SummaryApps : GetPlayerAchievements(FirstOp, app, "self")
    \/ \E outcome \in GetOutcomes :
          \E body \in BodiesOf(outcome, PlayerBodies) :
              PlayerResponse(FirstOp, outcome, body)
    \/ \E outcome \in GetOutcomes : SchemaResponse(FirstOp, outcome)
    \/ \E outcome \in GetOutcomes :
          \E body \in BodiesOf(outcome, GlobalBodies) :
              GlobalResponse(FirstOp, outcome, body)

SpecSummary == InitClient /\ [][NextSummary]_vars

\* ---------------------------------------------------------------------
\* The plugin replacing its client when the API key is set (main.py).
\* load_settings: the settings file, when there is one, overwrites the two
\* settings of the plugin
LoadedUser(file, user) == IF file.exists THEN file.steam_user_id ELSE user

\* settings['steam_api_key'] = api_key on the settings that were loaded
WithKey(file, key) == Settings(key, file.steam_user_id)

\* self.api = SteamAPI(key, user, cache_dir): a new client object, without a
\* session and with empty caches and a full request pool; the operations
\* still running on the client it replaces are no longer followed
ReplaceClient(key, user) ==
    /\ api' = Client(api.id + 1, key, user)
    /\ credentials' = (key # Unset /\ user # Unset)
    /\ session' = "none"
    /\ sem_value' = MAX_API_REQUESTS
    /\ sem_waiters' = << >>
    /\ achievement_cache' = NoCache
    /\ schema_cache' = NoCache
    /\ ops' = [o \in DOMAIN ops |-> NoOp]

\* set_steam_api_key(k) up to the await of session.close() inside
\* self.api.close(), or to its return when the settings cannot be saved or
\* the client has no open session
SetSteamApiKey(p, k, saved) ==
    /\ key_calls[p].st = "idle"
    /\ steam_api_key' = k
    /\ current_user_id' = LoadedUser(settings_file, current_user_id)
    /\ settings_file' = IF saved THEN WithKey(settings_file, k) ELSE settings_file
    /\ IF ~saved
       THEN /\ key_calls' = [key_calls EXCEPT ![p] =
                   [st |-> "done", api_key |-> k, client |-> api.id, ret |-> FALSE]]
            /\ UNCHANGED << api, closed_clients, apiVars >>
       ELSE IF session = "open"
       THEN /\ session' = "closed"
            /\ key_calls' = [key_calls EXCEPT ![p] =
                   [st |-> "closing", api_key |-> k, client |-> api.id,
                    ret |-> FALSE]]
            /\ UNCHANGED << api, closed_clients, credentials, sem_value,
                            sem_waiters, achievement_cache, schema_cache,
                            detail_files, ops >>
       ELSE /\ detail_files' = CleanedFiles(detail_files, now)
            /\ closed_clients' = closed_clients \cup {api.id}
            /\ ReplaceClient(k, LoadedUser(settings_file, current_user_id))
            /\ key_calls' = [key_calls EXCEPT ![p] =
                   [st |-> "done", api_key |-> k, client |-> api.id, ret |-> TRUE]]
    /\ UNCHANGED serviceVars

\* session.close() has returned: close() of the client the call started to
\* close ends, and the plugin's client is replaced by one built from the
\* settings the plugin has now
SetSteamApiKeyClosed(p) ==
    /\ key_calls[p].st = "closing"
    /\ detail_files' = CleanedFiles(detail_files, now)
    /\ closed_clients' = closed_clients \cup {key_calls[p].client}
    /\ ReplaceClient(steam_api_key, current_user_id)
    /\ key_calls' = [key_calls EXCEPT ![p].st = "done", ![p].ret = TRUE]
    /\ UNCHANGED << steam_api_key, current_user_id, settings_file >>
    /\ UNCHANGED serviceVars

NextPlugin ==
    \/ \E p \in KeyCalls, k \in Keys, saved \in BOOLEAN : SetSteamApiKey(p, k, saved)
    \/ \E p \in KeyCalls : SetSteamApiKeyClosed(p)
    \/ GetOwnedGames(FirstOp)
    \/ \E outcome \in GetOutcomes :
          Answers(outcome) /\ OwnedGamesResponse(FirstOp, outcome)

\* Plugin._main has run with key k1 in the settings and the user id either
\* in the settings or detected from the running Steam client
InitKeys ==
    /\ configured = TRUE
    /\ now = T0
    /\ library = Library(FlaggedGames, 0)
    /\ cacheFile = NoFile
    /\ InitService
    /\ pc = [c \in Calls |-> "idle"]
    /\ force = [c \in Calls |-> FALSE]
    /\ cached = [c \in Calls |-> None]
    /\ owned = [c \in Calls |-> NoOwned]
    /\ games = [c \in Calls |-> << >>]
    /\ tasks = [c \in Calls |-> << >>]
    /\ acc = [c \in Calls |-> NoAcc]
    /\ result = [c \in Calls |-> None]
    /\ ret = [c \in Calls |-> None]
    /\ InitApi
    /\ steam_api_key = "k1"
    /\ current_user_id = UserId
    /\ settings_file \in {Settings("k1", UserId), Settings("k1", Unset)}
    /\ api = Client(1, "k1", UserId)
    /\ closed_clients = {}
    /\ key_calls = [p \in KeyCalls |-> NoKeyCall]

SpecPlugin == InitKeys /\ [][NextPlugin]_vars

\* ---------------------------------------------------------------------
\* The recomputation together with the client it calls: every process_game
\* task runs one get_player_achievements operation on the client.  Each call
\* of get_achievement_progress is followed once.  Two libraries: one flagged
\* game, over which both callers run at the same time and the provider
\* answers in any way; and one flagged game more than the game gate lets in,
\* over which one caller runs, the provider's answer depends on the game
\* only, and the steps are taken in one order: a task that can start its
\* operation does so first, then a returned operation is taken by its task,
\* then a metadata fetch returns, then a finished task is consumed, and only
\* then the next request is answered; among several, the lowest index first.
\* the client operation of task i of call c
OpOf(c, i) == (c - 1) * Len(GamesWithStats(library)) + i
TaskOps == 1..Len(GateGames)

SmallLibrary == Len(library) = Len(FlaggedGames)

\* how the provider answers the player-state, schema and percentage requests
\* for a game of the large library
PlayerOutcome(app) == IF app % 5 = 0 THEN "limited" ELSE "ok"
SchemaOutcome(app) == IF app % 5 = 2 THEN "raise" ELSE "ok"
GlobalOutcome(app) == IF app % 5 = 3 THEN "status" ELSE "ok"

ProviderOutcomes(fixed) == IF SmallLibrary THEN GetOutcomes ELSE {fixed}

\* the player-state payload of the large library: A achieved, B not
ProviderPlayerBodies ==
    IF SmallLibrary THEN PlayerBodies
    ELSE { b \in PlayerBodies : b.success /\ "B" \in DOMAIN b.achievements }

\* process_game, lines 223-247: get_achievements has returned what the
\* client operation of the task returned
ProcessGameFetched(c, i) ==
    /\ i \in 1..Len(tasks[c])
    /\ tasks[c][i].st = "ach"
    /\ ops[OpOf(c, i)].st = "done"
    /\ LET game == tasks[c][i].game
           achievements == ops[OpOf(c, i)].ret
           r == ProcessGameResult(game, achievements)
           bad == "error" \in DOMAIN achievements /\ "total" \notin DOMAIN achievements
       IN  tasks' = [tasks EXCEPT ![c] =
               IF r.ok /\ r.is_perfect
               THEN [@ EXCEPT ![i].st = "det", ![i].failed = bad, ![i].res = r]
               ELSE ReleaseSemaphore([@ EXCEPT ![i].st = "done",
                                               ![i].failed = bad, ![i].res = r])]
    /\ UNCHANGED << shared, pc, force, cached, owned, games, acc, result, ret >>
    /\ UNCHANGED apiVars
    /\ UNCHANGED pluginVars

InitRecompute ==
    /\ configured = TRUE
    /\ now = T0
    /\ library \in {Library(FlaggedGames, 0), Library(GateGames, 0)}
    /\ cacheFile \in {NoFile, File(InitDoc.last_updated, InitDoc)}
    /\ InitService
    /\ InitLocals
    /\ InitPlugin
    /\ credentials = TRUE
    /\ session = "none"
    /\ sem_value = MAX_API_REQUESTS
    /\ sem_waiters = << >>
    /\ achievement_cache = NoCache
    /\ schema_cache = NoCache
    /\ detail_files = [a \in Apps |-> NoFile]
    /\ ops = [o \in TaskOps |-> NoOp]

\* the tasks of call c that have not started their operation, the operations
\* whose request is out, and the tasks in one of the states sts
Unstarted(c) ==
    { i \in 1..Len(tasks[c]) : tasks[c][i].st = "ach" /\ ops[OpOf(c, i)].st = "idle" }
Requesting == { o \in DOMAIN ops : ops[o].st \in {"player", "schema", "global"} }
Answered(c) ==
    { i \in 1..Len(tasks[c]) : tasks[c][i].st = "ach" /\ ops[OpOf(c, i)].st = "done" }
TasksIn(c, sts) == { i \in 1..Len(tasks[c]) : tasks[c][i].st \in sts }

\* the stages of the fan-out that have something to do: 1 start an
\* operation, 2 take a returned operation, 3 end a metadata fetch, 4 consume
\* a finished task, 5 answer a request
ReadyStages ==
    { k \in 1..5 :
        \/ k = 1 /\ \E c \in Calls : Unstarted(c) # {}
        \/ k = 2 /\ \E c \in Calls : Answered(c) # {}
        \/ k = 3 /\ \E c \in Calls : TasksIn(c, {"det"}) # {}
        \/ k = 4 /\ \E c \in Calls : pc[c] = "fanout" /\ TasksIn(c, {"done"}) # {}
        \/ k = 5 /\ Requesting # {} }

\* x of the set S of stage k may act now
Ordered(k, S, x) ==
    SmallLibrary \/ ((\A j \in ReadyStages : k <= j) /\ (\A y \in S : x <= y))

NextRecompute ==
    \/ \E c \in Calls, f \in BOOLEAN :
          /\ pc[c] = "idle"
          /\ SmallLibrary \/ c = Caller
          /\ GetAchievementProgress(c, f)
    \/ \E c \in Calls : LockAcquired(c)
    \/ \E c \in Calls : BlockedReturn(c)
    \/ \E c \in Calls : ReadCache(c)
    \/ \E c \in Calls, kind \in CatalogOutcomes : ValidateCount(c, kind)
    \/ \E c \in Calls, kind \in CatalogOutcomes : FetchOwnedGames(c, kind)
    \/ \E c \in Calls : \E i \in Unstarted(c) :
          /\ Ordered(1, Unstarted(c), i)
          /\ GetPlayerAchievements(OpOf(c, i), tasks[c][i].game.appid, "self")
    \/ \E o \in Requesting :
          /\ Ordered(5, Requesting, o)
          /\ \/ \E outcome \in ProviderOutcomes(PlayerOutcome(ops[o].app)) :
                   \E body \in BodiesOf(outcome, ProviderPlayerBodies) :
                       PlayerResponse(o, outcome, body)
             \/ \E outcome \in ProviderOutcomes(SchemaOutcome(ops[o].app)) :
                   SchemaResponse(o, outcome)
             \/ \E outcome \in ProviderOutcomes(GlobalOutcome(ops[o].app)) :
                   \E body \in BodiesOf(outcome, GlobalBodies) :
                       GlobalResponse(o, outcome, body)
    \/ \E c \in Calls : \E i \in Answered(c) :
          Ordered(2, Answered(c), i) /\ ProcessGameFetched(c, i)
    \/ \E c \in Calls : \E i \in TasksIn(c, {"det"}), o \in DetailOutcomes :
          Ordered(3, TasksIn(c, {"det"}), i) /\ ProcessGameDetails(c, i, o)
    \/ \E c \in Calls : \E i \in TasksIn(c, {"done"}) :
          Ordered(4, TasksIn(c, {"done"}), i) /\ Consume(c, i)
    \/ \E c \in Calls, w \in BOOLEAN : SaveOverallProgress(c, w)

SpecRecompute == InitRecompute /\ [][NextRecompute]_vars

\* every remote call and every cache read or write ends, and a coroutine
\* that can run is run
SpecLive == SpecRecompute /\ WF_vars(NextRecompute)

\* =============================================================== claims
\* a step in which call c enters get_achievement_progress(force_refresh=false)
\* and goes on past the configuration check
EntersNoForce(c) ==
    /\ pc[c] \in {"idle", "done"}
    /\ pc'[c] \in {"blocked", "read_cache", "wait_lock"}
    /\ ~force'[c]

\* some call other than c is between taking the lock and returning
OtherComputing(c) == \E a \in Calls \ {c} : pc[a] \in ComputingPcs

NoComputation == \A a \in Calls : pc[a] \in {"idle", "done"}

\* C1: at most one recomputation (the catalog fetch of the recomputation or
\* its per-game fan-out) is in progress at any time.
SingleFlight ==
    Cardinality({ c \in Calls : pc[c] \in {"owned_games", "fanout"} }) <= 1

\* C2: while the safety timeout cannot have elapsed (no more than the
\* timeout has passed since the service was built), two force_refresh=false
\* calls never both run a per-game fan-out: the fan-out is started once.
NoSecondFanout ==
    now <= T0 + PROGRESS_CALCULATION =>
        Cardinality({ c \in Calls : pc[c] = "fanout" /\ ~force[c] }) <= 1

\* C3: when every call has returned, the aggregator is Idle: the lock is
\* free and _is_processing is false.
IdleAfterReturn ==
    NoComputation => (~locked /\ ~is_processing)

\* C4: a force_refresh=false call that arrives while another call is
\* computing (and the safety timeout has not elapsed) is turned away at
\* once, and a call that is turned away returns the cache or the
\* "in progress" error as its next step.
TurnedAwayWhileComputing ==
    [][\A b \in Calls :
          /\ (EntersNoForce(b) /\ OtherComputing(b) /\ ~TimedOut)
                => pc'[b] = "blocked"
          /\ (pc[b] = "blocked" /\ pc'[b] # "blocked")
                => (pc'[b] = "done" /\ ret'[b] = BlockedAnswer(cacheFile, now))
      ]_vars

\* C5: a force_refresh=false call that finds the flag set for longer than
\* the safety timeout, while the other calls are idle or wait for a catalog
\* or per-game fetch, is not turned away: it takes the lock and starts a
\* computation of its own.
TimeoutStartsFreshComputation ==
    [][\A b \in Calls :
          (/\ EntersNoForce(b) /\ is_processing /\ TimedOut
           /\ \A a \in Calls \ {b} :
                  pc[a] \in {"idle", "done", "validate", "owned_games", "fanout"})
              => (pc'[b] = "read_cache" /\ is_processing'
                  /\ processing_start_time' = now)
      ]_vars

\* C6: two writes of the aggregate cache never overlap: at most one call is
\* inside save_overall_progress at a time.
CacheWritesExclusive ==
    Cardinality({ c \in Calls : pc[c] = "save" }) <= 1

\* C7: with no computation running, a configured force_refresh=false call is
\* not turned away: it reads the cache inside the lock, returns it if and
\* only if it is younger than the TTL and the live game count is within the
\* tolerance, and otherwise goes on to the recomputation.
CacheValidityDecides ==
    [][\A b \in Calls :
          /\ (EntersNoForce(b) /\ NoComputation) => pc'[b] = "read_cache"
          /\ (pc[b] = "read_cache" /\ pc'[b] # "read_cache") =>
                IF cacheFile.exists /\ now - cacheFile.mtime < PROGRESS_FILE_TTL
                THEN pc'[b] = "validate" ELSE pc'[b] = "owned_games"
          /\ (pc[b] = "validate" /\ pc'[b] # "validate"
                /\ owned'[b].kind # "raise") =>
                IF owned'[b].kind = "ok"
                   /\ Abs(Len(library) - cached[b].val.total_games)
                          <= GAME_COUNT_TOLERANCE
                THEN pc'[b] = "done" /\ ret'[b] = cached[b]
                ELSE pc'[b] = "owned_games"
      ]_vars

\* C8: the step that returns a valid cache hit has started no process_game
\* task in this call, leaves the aggregate cache file as it is, and returns
\* exactly the fields of the cached document.
CacheHitFrame ==
    [][\A c \in Calls :
          (pc[c] = "validate" /\ pc'[c] = "done" /\ owned'[c].kind = "ok") =>
              /\ tasks[c] = << >> /\ tasks'[c] = << >>
              /\ cacheFile' = cacheFile
              /\ ret'[c] = cached[c]
      ]_vars

\* a call has returned a validated cache hit: nothing else was ever called,
\* the flag is clear, and the call returned a document it did not compute
CacheHitReturned ==
    \E c \in Calls :
        /\ \A a \in Calls \ {c} : pc[a] = "idle"
        /\ pc[c] = "done" /\ ~is_processing
        /\ owned[c].kind = "ok"
        /\ result[c] = None
        /\ ret[c].some /\ "error" \notin DOMAIN ret[c].val

\* the tasks of call c whose get_achievements did not fail
Fetched(c) == { i \in 1..Len(tasks[c]) : ~tasks[c][i].failed }

\* the sum of f over a finite set of task indices
RECURSIVE SumOver(_, _)
SumOver(S, f) ==
    IF S = {} THEN 0
    ELSE LET i == CHOOSE j \in S : TRUE
         IN  f[i] + SumOver(S \ {i}, f)

CatalogFailureAborts ==
    [][\A c \in Calls :
          (pc[c] = "owned_games" /\ pc'[c] # "owned_games"
             /\ owned'[c].kind \in {"error", "raise"}) =>
              /\ pc'[c] = "done"
              /\ ret'[c].some /\ DOMAIN ret'[c].val = {"error"}
              /\ tasks[c] = << >> /\ tasks'[c] = << >>
              /\ cacheFile' = cacheFile
      ]_vars

\* a recomputation has returned the catalog error while a cache file exists
CatalogFailureReturned ==
    \E c \in Calls :
        /\ pc[c] = "done"
        /\ owned[c].kind = "error"
        /\ ret[c] = ErrorResult("Failed to get owned games")
        /\ cacheFile.exists

\* the tasks of call c that were fetched and whose game has achievements
Counted(c) ==
    { i \in Fetched(c) : AchievementsOf(tasks[c][i].game.appid).total > 0 }

\* the result of a recomputation over three games with (total, unlocked) =
\* (10,10), (20,5), (0,0): each summary goes through process_game and the loop
ExampleDoc ==
    LET g(i) == Game(i, TRUE)
        r(i, t, u) == ProcessGameResult(g(i),
                          IF t = 0
                          THEN [app_id |-> i, total |-> 0, unlocked |-> 0,
                                error |-> "No achievements found for this game"]
                          ELSE [app_id |-> i, total |-> t, unlocked |-> u])
    IN  BuildResult(<< g(1), g(2), g(3) >>,
                    Accumulate(Accumulate(Accumulate(NoAcc, r(1, 10, 10)),
                                          r(2, 20, 5)),
                               r(3, 0, 0)),
                    T0)

\* C11: a completed recomputation has total_games = the number of catalog
\* entries, games_with_achievements = the number of fetched games with
\* total > 0, total_achievements and unlocked_achievements = the sums over
\* exactly those games, perfect_games_count = the number of those games with
\* unlocked = total, and average_completion = the rounded percentage; the
\* games (10,10), (20,5), (0,0) give 30, 15, 50.0, 2, 1 and total_games 3.
AggregateTotals ==
    /\ \A c \in Calls :
          pc[c] = "save" =>
              LET totals == [i \in 1..Len(tasks[c]) |->
                                AchievementsOf(tasks[c][i].game.appid)]
                  doc == result[c].val
              IN  /\ doc.total_games = Len(library)
                  /\ doc.games_with_achievements = Cardinality(Counted(c))
                  /\ doc.total_achievements =
                        SumOver(Counted(c), [i \in 1..Len(tasks[c]) |-> totals[i].total])
                  /\ doc.unlocked_achievements =
                        SumOver(Counted(c), [i \in 1..Len(tasks[c]) |-> totals[i].unlocked])
                  /\ doc.perfect_games_count =
                        Cardinality({ i \in Counted(c) :
                                        totals[i].unlocked = totals[i].total })
                  /\ doc.average_completion =
                        AverageCompletion(doc.unlocked_achievements,
                                          doc.total_achievements)
    /\ ExampleDoc.total_achievements = 30
    /\ ExampleDoc.unlocked_achievements = 15
    /\ ExampleDoc.average_completion = 500
    /\ ExampleDoc.games_with_achievements = 2
    /\ ExampleDoc.perfect_games_count = 1
    /\ ExampleDoc.total_games = 3

\* a recomputation over the perfect game, the partly unlocked game, the game
\* without achievements and one unflagged game has fetched all of them
AllGamesAggregated ==
    \E c \in Calls :
        /\ pc[c] = "save"
        /\ Len(library) = Len(FanoutGames) + 1
        /\ Fetched(c) = 1..Len(FanoutGames)
        /\ result[c].val.games_with_achievements = 2
        /\ result[c].val.perfect_games_count = 1

\* the operations whose HTTP request is out
InFlight ==
    { o \in DOMAIN ops : ops[o].st \in {"player", "schema", "global", "get", "details"} }

\* the permits of the request pool that are taken
PermitsHeld == MAX_API_REQUESTS - sem_value

\* C12: every outbound request is issued while holding a permit of the
\* request pool: there are never more requests in flight than permits taken
\* (and so never more than MAX_API_REQUESTS).
RequestsHoldPermits ==
    /\ Cardinality(InFlight) <= PermitsHeld
    /\ Cardinality(InFlight) <= MAX_API_REQUESTS

\* C13: a permit taken by _get is given back when the request ends, however
\* it ends: the permits taken are exactly those of the requests in flight,
\* never more than the pool has, none when no request is in flight, and an
\* operation waits for a permit only while all of them are taken.
PermitsReleased ==
    /\ PermitsHeld = Cardinality(InFlight)
    /\ PermitsHeld \in 0..MAX_API_REQUESTS
    /\ (InFlight = {} => sem_value = MAX_API_REQUESTS)
    /\ (sem_waiters # << >> => sem_value = 0)

\* every operation has ended, one after a 200 and one after a failed
\* request, more operations than the pool has permits, and the pool is full
PoolFullAfterFailures ==
    /\ \A o \in DOMAIN ops : ops[o].st = "done"
    /\ Cardinality(DOMAIN ops) > MAX_API_REQUESTS
    /\ \E o \in DOMAIN ops : ops[o].ret.kind = "error"
    /\ \E o \in DOMAIN ops : ops[o].ret.kind = "ok"
    /\ sem_value = MAX_API_REQUESTS

\* the tasks of call c that are inside `async with semaphore`
Running(c) == { i \in 1..Len(tasks[c]) : tasks[c][i].st \in {"ach", "det"} }

\* C14: within one recomputation at most MAX_GAMES process_game bodies run
\* at the same time, and a task waits at the gate only while MAX_GAMES run.
GameGateBound ==
    \A c \in Calls :
        /\ Cardinality(Running(c)) <= MAX_GAMES
        /\ (\E i \in 1..Len(tasks[c]) : tasks[c][i].st = "wait")
              => Cardinality(Running(c)) = MAX_GAMES

\* the task past the first MAX_GAMES has been let in after one of them ended,
\* and MAX_GAMES tasks are running again
LastGameAdmitted ==
    \E c \in Calls :
        /\ Len(tasks[c]) = MAX_GAMES + 1
        /\ tasks[c][MAX_GAMES + 1].st = "ach"
        /\ Cardinality(Running(c)) = MAX_GAMES

\* the nine fields of an OverallProgress
ProgressFields ==
    {"total_games", "games_with_achievements", "total_achievements",
     "unlocked_achievements", "average_completion", "perfect_games",
     "perfect_games_count", "last_updated", "processed_games"}

\* C15: every value get_achievement_progress returns is either a complete
\* OverallProgress (the nine fields, no error) or an error and nothing else.
ReturnsProgressOrError ==
    \A c \in Calls :
        ret[c].some =>
            \/ DOMAIN ret[c].val = ProgressFields
            \/ DOMAIN ret[c].val = {"error"}

\* the operations that are past the player-state fetch of
\* get_player_achievements
PastPlayerFetch ==
    { o \in DOMAIN ops :
        ops[o].st \in {"wait_schema", "schema", "wait_global", "global"} }

\* C16: a failed player-state fetch (no response, a status other than 200,
\* or a refusal in the body) fails get_player_achievements as a whole: only
\* an operation that was given the player's achievements goes on to the
\* schema, and the step that ends the operation at the player-state fetch
\* returns an error and nothing else and leaves the achievement cache as it
\* is.
PlayerFailureFailsAll ==
    /\ [](\A o \in PastPlayerFetch :
             \E body \in PlayerBodies :
                 body.success /\ ops[o].player = body.achievements)
    /\ [][\A o \in DOMAIN ops :
             (ops[o].st = "player" /\ ops'[o].st = "done") =>
                 /\ DOMAIN ops'[o].ret = {"error"}
                 /\ achievement_cache' = achievement_cache
         ]_vars

\* get_player_achievements has returned the provider's refusal while the
\* summary of another request is in the cache
PlayerRefusalReturned ==
    \E o \in DOMAIN ops :
        /\ ops[o].st = "done"
        /\ ops[o].kind = "player_achievements"
        /\ ops[o].ret = [error |-> "Steam API error"]
        /\ AchievementKey(1, "self") \notin DOMAIN achievement_cache
        /\ AchievementKey(1, "other") \in DOMAIN achievement_cache

\* C17: when the global-percentage request fails (403/429, another status,
\* an exception) after the player state and a schema with achievements were
\* fetched, get_player_achievements returns a summary without an error, with
\* the total and the unlocked count it has when the request succeeds, and
\* with global_percent null on every record.
GlobalFailureDegrades ==
    [][\A o \in DOMAIN ops, outcome \in GetOutcomes \ {"ok"} :
          (/\ ops[o].st = "global"
           /\ ops[o].names # << >>
           /\ GlobalResponse(o, outcome, NoGlobal)) =>
              LET r == ops'[o].ret
              IN  /\ ops'[o].st = "done"
                  /\ "error" \notin DOMAIN r
                  /\ \A g \in GlobalBodies :
                        LET full == Summary(ops[o].app, ops[o].player,
                                            ops[o].names, g)
                        IN  r.total = full.total /\ r.unlocked = full.unlocked
                  /\ Len(r.achievements) = Len(ops[o].names)
                  /\ \A i \in 1..Len(r.achievements) :
                        r.achievements[i].global_percent = Null
      ]_vars

\* a summary with an unlocked achievement and no global percentage at all
\* has been returned and is in the achievement cache
DegradedSummaryReturned ==
    \E o \in DOMAIN ops :
        /\ ops[o].st = "done"
        /\ ops[o].kind = "player_achievements"
        /\ "error" \notin DOMAIN ops[o].ret
        /\ ops[o].ret.total = 2 /\ ops[o].ret.unlocked = 1
        /\ \A i \in 1..Len(ops[o].ret.achievements) :
              ops[o].ret.achievements[i].global_percent = Null
        /\ \E k \in DOMAIN achievement_cache :
              achievement_cache[k].value = ops[o].ret

\* C18: a schema without achievement definitions does not fail
\* get_player_achievements: the operation goes on after the schema request,
\* and returns a summary with total = 0, unlocked = 0, percentage = 0, no
\* records and an explanatory error.
EmptySchemaSummary ==
    [][\A o \in DOMAIN ops :
          /\ (/\ ops[o].st = "schema"
              /\ SchemaOf(ops[o].app) = << >>
              /\ SchemaResponse(o, "ok")) =>
                 (ops'[o].st \in {"wait_global", "global"}
                    /\ ops'[o].names = << >>)
          /\ (/\ ops[o].st = "global"
              /\ ops[o].names = << >>
              /\ ops'[o].st # "global") =>
                 LET r == ops'[o].ret
                 IN  /\ ops'[o].st = "done"
                     /\ DOMAIN r = {"app_id", "total", "unlocked", "percentage",
                                    "achievements", "error"}
                     /\ r.app_id = ops[o].app
                     /\ r.total = 0 /\ r.unlocked = 0 /\ r.percentage = 0
                     /\ r.achievements = << >>
                     /\ r.error = "No achievements found for this game"
      ]_vars

\* the zero-total summary of the app without achievements has been returned
EmptySchemaReturned ==
    \E o \in DOMAIN ops :
        /\ ops[o].st = "done"
        /\ ops[o].kind = "player_achievements"
        /\ "total" \in DOMAIN ops[o].ret
        /\ ops[o].ret.app_id = 2
        /\ ops[o].ret.total = 0
        /\ SchemaKey(2) \in DOMAIN schema_cache

\* C19: get_player_achievements(app, user) returns the cached summary
\* without a request when the entry of (app, user) has not expired, and
\* starts a live player-state fetch when there is no entry or the entry is
\* ACHIEVEMENT_TTL old.
CacheHitOrLiveFetch ==
    [][\A o \in DOMAIN ops, r \in Requests :
          GetPlayerAchievements(o, r[1], r[2]) =>
              LET key == AchievementKey(r[1], r[2])
                  fresh == /\ key \in DOMAIN achievement_cache
                           /\ now - (achievement_cache[key].expires
                                       - ACHIEVEMENT_TTL) < ACHIEVEMENT_TTL
              IN  IF fresh
                  THEN /\ ops'[o].st = "done"
                       /\ ops'[o].ret = achievement_cache[key].value
                       /\ sem_value' = sem_value /\ sem_waiters' = sem_waiters
                       /\ session' = session
                  ELSE /\ ops'[o].st \in {"wait_player", "player"}
                       /\ ops'[o].app = r[1] /\ ops'[o].user = r[2]
      ]_vars

\* a live player-state fetch is under way for a summary whose expired entry
\* is still stored
ExpiredEntryRefetched ==
    \E o \in DOMAIN ops :
        /\ ops[o].st = "player"
        /\ AchievementKey(ops[o].app, ops[o].user) \in DOMAIN achievement_cache
        /\ achievement_cache[AchievementKey(ops[o].app, ops[o].user)].expires = now

\* C20: in every state, what clear_memory_cache(app) and
\* clear_memory_cache() leave of the achievement cache has no entry of the
\* app (of any app) for the client's user, a clear step leaves just that, and
\* a get_player_achievements(app) that finds no entry starts a live
\* player-state fetch instead of returning a stored summary.
InvalidateThenLiveFetch ==
    /\ [](\A app \in Apps \cup {0} :
             \A a \in (IF app = 0 THEN Apps ELSE {app}) :
                 LET cleared == ClearedAchievements(achievement_cache, app)
                 IN  /\ AchievementKey(a, "self") \notin DOMAIN cleared
                     /\ ~CacheGet(cleared, AchievementKey(a, "self"), now).some)
    /\ [][\A app \in Apps \cup {0} :
             ClearMemoryCache(app) =>
                 achievement_cache' = ClearedAchievements(achievement_cache, app)
         ]_vars
    /\ [][\A o \in DOMAIN ops, a \in Apps :
             (/\ AchievementKey(a, "self") \notin DOMAIN achievement_cache
              /\ GetPlayerAchievements(o, a, "self")) =>
                 (ops'[o].st \in {"wait_player", "player"} /\ ops'[o].app = a)
         ]_vars

\* a summary was returned (and cached), the achievement cache has been
\* cleared before anything could expire, and a live player-state fetch for
\* the app is under way
RefetchAfterClear ==
    \E o1, o2 \in DOMAIN ops :
        /\ ops[o1].st = "done" /\ ops[o1].kind = "player_achievements"
        /\ "error" \notin DOMAIN ops[o1].ret
        /\ ops[o2].st = "player" /\ ops[o2].app = 1 /\ ops[o2].user = "self"
        /\ achievement_cache = NoCache
        /\ now = T0

\* C21: clear_memory_cache(app) takes the entry of (app, the client's user)
\* out of the achievement cache and leaves every other entry as it is;
\* clear_memory_cache() leaves both in-memory caches empty; neither changes
\* a game_<id>.json file.
ClearFrame ==
    /\ [](\A app \in Apps :
             LET cleared == ClearedAchievements(achievement_cache, app)
             IN  /\ DOMAIN cleared =
                       DOMAIN achievement_cache \ {AchievementKey(app, "self")}
                 /\ \A k \in DOMAIN cleared : cleared[k] = achievement_cache[k])
    /\ [][\A app \in Apps \cup {0} :
             ClearMemoryCache(app) =>
                 /\ achievement_cache' =
                       ClearedAchievements(achievement_cache, app)
                 /\ app = 0 => (achievement_cache' = NoCache
                                  /\ schema_cache' = NoCache)
                 /\ detail_files' = detail_files
         ]_vars

\* the last summary returned is not the one cached for the other user, so it
\* was the one of the client's user, which is no longer cached, while the
\* other user's summary, a schema and a metadata file are still there
OtherEntriesKept ==
    /\ ops[FirstOp].st = "done"
    /\ ops[FirstOp].kind = "player_achievements"
    /\ "error" \notin DOMAIN ops[FirstOp].ret
    /\ AchievementKey(1, "self") \notin DOMAIN achievement_cache
    /\ AchievementKey(1, "other") \in DOMAIN achievement_cache
    /\ achievement_cache[AchievementKey(1, "other")].value # ops[FirstOp].ret
    /\ SchemaKey(1) \in DOMAIN schema_cache
    /\ detail_files[1].exists

\* the client as close() leaves it
ClosedState ==
    /\ session = "none"
    /\ achievement_cache = NoCache
    /\ schema_cache = NoCache

\* C22: whatever the client is doing, the step in which a close() returns
\* leaves the session None and both in-memory caches empty (for
\* AchievementService.close: when it still has its client), and a close()
\* of a client that is already in that state returns at once and changes
\* nothing of the client.
CloseReleases ==
    /\ [][\A o \in DOMAIN ops :
             (/\ \/ CloseDone(o)
                 \/ Close(o, "close")
                 \/ (configured /\ Close(o, "service_close"))
              /\ ops'[o].st = "done") => ClosedState'
         ]_vars
    /\ [][\A o \in DOMAIN ops, kind \in {"close", "service_close"} :
             (/\ ClosedState
              /\ CleanedFiles(detail_files, now) = detail_files
              /\ Close(o, kind)) =>
                 /\ ops'[o].st = "done"
                 /\ UNCHANGED << session, achievement_cache, schema_cache,
                                 detail_files, sem_value, sem_waiters,
                                 credentials >>
         ]_vars

\* a close() has returned while a request of get_player_achievements is
\* out: the session that request was sent on is gone and the schema it had
\* cached is cleared
ClosedUnderRequest ==
    /\ ops[FirstOp].st = "global"
    /\ ops[FirstOp].names # << >>
    /\ ClosedState
    /\ \E o \in DOMAIN ops : ops[o].st = "done" /\ ops[o].kind = "close"

\* C23: without its api, key or user id the service returns the error
\* "Not configured" from every get_achievement_progress and no call gets as
\* far as a request; without its key or user id the client returns an error
\* and nothing else from every get_player_achievements and get_owned_games,
\* no operation waits for or holds a request permit, and no session is
\* opened.
MissingCredentialsFailFast ==
    /\ ~configured =>
          \A c \in Calls :
              /\ pc[c] \in {"idle", "done"}
              /\ pc[c] = "done" => ret[c] = ErrorResult("Not configured")
    /\ ~credentials =>
          /\ session = "none"
          /\ sem_value = MAX_API_REQUESTS
          /\ sem_waiters = << >>
          /\ \A o \in DOMAIN ops :
                /\ ops[o].st \in {"idle", "done"}
                /\ ops[o].st = "done" => DOMAIN ops[o].ret = {"error"}

\* get_achievement_progress and get_owned_games have both returned their
\* error, without credentials
RefusedWithoutCredentials ==
    /\ ~configured
    /\ ~credentials
    /\ pc[Caller] = "done"
    /\ ops[FirstOp].st = "done"
    /\ ops[FirstOp].kind = "owned_games"

\* C24: whenever the live metadata request of get_app_details fails (it
\* raises, the status is not 200, or the payload is unsuccessful), the
\* operation returns the fallback record of the app, never an error result.
MetadataFailureFallsBack ==
    [][\A o \in DOMAIN ops, outcome \in GetOutcomes, w \in BOOLEAN :
          \A body \in BodiesOf(outcome, DetailBodies) :
              (/\ AppDetailsResponse(o, outcome, body, w)
               /\ ~(outcome = "ok" /\ body.success)) =>
                  /\ ops'[o].st = "done"
                  /\ "error" \notin DOMAIN ops'[o].ret
                  /\ ops'[o].ret = DetailFallback(ops[o].app)
      ]_vars

\* C25: when the write of the aggregate cache fails after a recomputation,
\* get_achievement_progress returns the OverallProgress it has just
\* computed, field for field and without an error, and the cache file stays
\* as it was.
WriteFailureStillReturns ==
    [][\A c \in Calls :
          SaveOverallProgress(c, FALSE) =>
              /\ pc'[c] = "done"
              /\ cacheFile' = cacheFile
              /\ ret'[c].some
              /\ DOMAIN ret'[c].val = ProgressFields
              /\ \A f \in ProgressFields : ret'[c].val[f] = result[c].val[f]
      ]_vars

\* a recomputation over the three games has returned its totals although no
\* cache file could be written
ReturnedUnpersisted ==
    /\ pc[Caller] = "done"
    /\ ret[Caller].some
    /\ "error" \notin DOMAIN ret[Caller].val
    /\ ret[Caller].val.total_achievements = 3
    /\ ret[Caller].val.perfect_games_count = 1
    /\ cacheFile = NoFile

\* the summaries that get_player_achievements has returned
ReturnedSummaries ==
    { ops[o].ret : o \in { p \in DOMAIN ops :
                             /\ ops[p].st = "done"
                             /\ ops[p].kind = "player_achievements"
                             /\ "achievements" \in DOMAIN ops[p].ret } }

\* C26: in every record of every returned summary, unlock_time is non-null
\* exactly when unlocked is true.
UnlockTimeIffUnlocked ==
    \A r \in ReturnedSummaries :
        \A i \in 1..Len(r.achievements) :
            (r.achievements[i].unlock_time # Null) <=> r.achievements[i].unlocked

\* C27: every returned summary has 0 <= unlocked <= total, as many records
\* as its total, and as many unlocked records as its unlocked count, also
\* when the player's payload names achievements that the schema does not
\* have.
UnlockedWithinTotal ==
    \A r \in ReturnedSummaries :
        /\ 0 <= r.unlocked
        /\ r.unlocked <= r.total
        /\ r.total = Len(r.achievements)
        /\ r.unlocked =
              Cardinality({ i \in 1..Len(r.achievements) :
                              r.achievements[i].unlocked })

\* the summary of the app with one achievement, built from the payload that
\* reports two achieved entries, one of them unknown to the schema
ForeignAchievementIgnored ==
    \E r \in ReturnedSummaries :
        /\ r.app_id = 4
        /\ r.total = 1 /\ r.unlocked = 1
        /\ r.achievements[1].unlock_time = 9

\* p, in hundredths of a percent, is a multiple of `step` hundredths nearest
\* to n / d * 100
NearestPercent(p, n, d, step) ==
    /\ p % step = 0
    /\ 2 * Abs(p * d - 10000 * n) <= step * d

\* C29 as stated: the percentage of a returned summary is unlocked / total *
\* 100 rounded to one decimal, and 0 when total = 0.
PercentageOneDecimal ==
    \A r \in ReturnedSummaries :
        IF r.total = 0 THEN r.percentage = 0
        ELSE NearestPercent(r.percentage, r.unlocked, r.total, 10)

\* C29 as amended: the percentage of a returned summary is unlocked / total
\* * 100 rounded to two decimals, and 0 when total = 0.
PercentageTwoDecimals ==
    \A r \in ReturnedSummaries :
        IF r.total = 0 THEN r.percentage = 0
        ELSE NearestPercent(r.percentage, r.unlocked, r.total, 1)

\* one achievement of three unlocked: 33.33 percent
OneThirdReturned ==
    \E r \in ReturnedSummaries :
        r.total = 3 /\ r.unlocked = 1 /\ r.percentage = 3333

\* C28: every result dict a recomputation builds, and every OverallProgress
\* returned without an error, has games_with_achievements <= total_games and
\* unlocked_achievements <= total_achievements.
ProgressBounds ==
    \A c \in Calls :
        /\ result[c].some =>
              /\ result[c].val.games_with_achievements <= result[c].val.total_games
              /\ result[c].val.unlocked_achievements
                    <= result[c].val.total_achievements
        /\ (ret[c].some /\ "error" \notin DOMAIN ret[c].val) =>
              /\ ret[c].val.games_with_achievements <= ret[c].val.total_games
              /\ ret[c].val.unlocked_achievements <= ret[c].val.total_achievements

\* a recomputation over four games, three of them fanned out and two with
\* achievements, has returned 2 of 3 achievements unlocked
BoundedProgressReturned ==
    /\ pc[Caller] = "done"
    /\ ret[Caller].some
    /\ "error" \notin DOMAIN ret[Caller].val
    /\ ret[Caller].val.total_games = 4
    /\ ret[Caller].val.games_with_achievements = 2
    /\ ret[Caller].val.unlocked_achievements = 2
    /\ ret[Caller].val.total_achievements = 3
    /\ ret[Caller].val.last_updated = now

\* C30: when the metadata fetch of a perfect game returns no header image
\* or raises, the task still yields the game's result, with an empty header
\* image; consuming the result of a perfect game adds its counts to the
\* totals and appends its entry, with that header image, to perfect_games;
\* and the result dict carries the entry of every perfect game consumed.
PerfectGameKeptWithoutImage ==
    /\ [][\A c \in Calls, i \in 1..Len(FanoutGames) :
             \A outcome \in DetailOutcomes \ {"details"} :
                 ProcessGameDetails(c, i, outcome) =>
                     /\ tasks'[c][i].st = "done"
                     /\ tasks'[c][i].res =
                           [tasks[c][i].res EXCEPT !.header_image = ""]
                     /\ tasks'[c][i].res.ok /\ tasks'[c][i].res.is_perfect
         ]_vars
    /\ [][\A c \in Calls, i \in 1..Len(FanoutGames) :
             (Consume(c, i) /\ tasks[c][i].res.ok /\ tasks[c][i].res.is_perfect) =>
                 LET r == tasks[c][i].res
                 IN  /\ acc'[c].games_with_achievements
                           = acc[c].games_with_achievements + 1
                     /\ acc'[c].total_achievements
                           = acc[c].total_achievements + r.total
                     /\ acc'[c].unlocked_achievements
                           = acc[c].unlocked_achievements + r.unlocked
                     /\ Len(acc'[c].perfect_games) = Len(acc[c].perfect_games) + 1
                     /\ LET entry == acc'[c].perfect_games[Len(acc'[c].perfect_games)]
                        IN  /\ entry.app_id = r.appid
                            /\ entry.header_image = r.header_image
         ]_vars
    /\ [](\A c \in Calls :
             (pc[c] = "save" /\ result[c].some) =>
                 \A i \in 1..Len(tasks[c]) :
                     (tasks[c][i].res.ok /\ tasks[c][i].res.is_perfect) =>
                         \E k \in 1..Len(result[c].val.perfect_games) :
                             /\ result[c].val.perfect_games[k].app_id
                                   = tasks[c][i].res.appid
                             /\ result[c].val.perfect_games[k].header_image
                                   = tasks[c][i].res.header_image)

\* a recomputation has returned the perfect game with an empty header image
\* and with its achievement counted in the totals
PerfectGameWithoutImageReturned ==
    /\ pc[Caller] = "done"
    /\ ret[Caller].some
    /\ "error" \notin DOMAIN ret[Caller].val
    /\ ret[Caller].val.perfect_games_count = 1
    /\ ret[Caller].val.perfect_games[1].app_id = 1
    /\ ret[Caller].val.perfect_games[1].header_image = ""
    /\ ret[Caller].val.total_achievements = 3
    /\ ret[Caller].val.unlocked_achievements = 2

\* C31: a recomputation starts a per-game fetch exactly for the catalog
\* entries flagged has_community_visible_stats, so an unflagged entry has no
\* task and causes no remote call; total_games of the result, and of what the
\* call returns, is the length of the whole catalog.
FlaggedTasks(c) ==
    { k \in 1..Len(games[c]) : games[c][k].has_community_visible_stats }

OnlyFlaggedGamesFetched ==
    /\ [](\A c \in Calls :
             /\ \A i \in 1..Len(tasks[c]) :
                   /\ tasks[c][i].game.has_community_visible_stats
                   /\ \E k \in FlaggedTasks(c) : games[c][k] = tasks[c][i].game
             /\ pc[c] \in {"fanout", "save"} =>
                   /\ games[c] = library
                   /\ Len(tasks[c]) = Cardinality(FlaggedTasks(c))
             /\ (pc[c] = "save" /\ result[c].some) =>
                   result[c].val.total_games = Len(library))
    /\ [][\A c \in Calls, w \in BOOLEAN :
             SaveOverallProgress(c, w) =>
                 ret'[c].val.total_games = Len(library)
         ]_vars

\* a recomputation over three flagged games and one unflagged game has
\* returned: four games in total, the two with achievements processed
UnflaggedGameCounted ==
    /\ pc[Caller] = "done"
    /\ ret[Caller].some
    /\ "error" \notin DOMAIN ret[Caller].val
    /\ Len(library) = Len(FanoutGames) + 1
    /\ ~library[Len(library)].has_community_visible_stats
    /\ ret[Caller].val.total_games = Len(library)
    /\ ret[Caller].val.processed_games = 2

\* C32: what get_player_achievements returns when the provider answers 403
\* or 429 differs from what it returns, in the same state, when the request
\* times out, cannot connect or is answered with another status.
RateLimitedDistinguished ==
    [][\A o \in DOMAIN ops :
          PlayerResponse(o, "limited", NoGlobal) =>
              \A outcome \in {"status", "raise"} :
                  ops'[o].ret # PlayerRaw(HttpGet(outcome, NoGlobal))
      ]_vars

\* C33: when a call set_steam_api_key(k) returns true, the plugin's
\* steam_api_key is k, the client the plugin had until then has been closed,
\* and the plugin's client is a new one built with k and the current user id.
KeySetAndClientReplaced ==
    [][\A p \in KeyCalls :
          (key_calls[p].st # "done" /\ key_calls'[p].st = "done"
              /\ key_calls'[p].ret) =>
              /\ steam_api_key' = key_calls'[p].api_key
              /\ api.id \in closed_clients'
              /\ api'.id > api.id
              /\ api' = Client(api'.id, key_calls'[p].api_key, current_user_id')
      ]_vars

\* C34: clear_memory_cache(app_id) leaves no schema of that app in the
\* schema cache, so the next get_schema_for_game(app_id) finds nothing there
\* and sends its request.
ClearRemovesSchema ==
    [][\A app \in Apps :
          ClearMemoryCache(app) =>
              ~CacheGet(schema_cache', SchemaKey(app), now').some
      ]_vars

\* C35: get_app_details answers from game_<id>.json, without a request,
\* exactly when the file exists and is younger than APP_DETAILS_TTL;
\* otherwise it sends the store request, and a successful answer whose record
\* can be written replaces the file by the new record, stamped with the
\* current time, which is also what the call returns.
FreshDetailFile(app) ==
    /\ detail_files[app].exists
    /\ detail_files[app].mtime + APP_DETAILS_TTL > now

DetailsFromDiskOrStore ==
    /\ [][\A o \in DOMAIN ops, app \in Apps :
             GetAppDetails(o, app) =>
                 /\ UNCHANGED detail_files
                 /\ IF FreshDetailFile(app)
                    THEN /\ ops'[o].st = "done"
                         /\ ops'[o].ret = detail_files[app].doc
                         /\ UNCHANGED session
                    ELSE /\ ops'[o].st = "details"
                         /\ session' # "none"
         ]_vars
    /\ [][\A o \in DOMAIN ops, body \in DetailBodies :
             (AppDetailsResponse(o, "ok", body, TRUE) /\ body.success) =>
                 LET app == ops[o].app
                 IN  /\ detail_files'[app].exists
                     /\ detail_files'[app].mtime = now
                     /\ detail_files'[app].doc.app_id = app
                     /\ detail_files'[app].doc.header_image = body.header_image
                     /\ ops'[o].ret = detail_files'[app].doc
                     /\ \A a \in Apps \ {app} : detail_files'[a] = detail_files[a]
         ]_vars

\* one call was answered from the old file; after the file expired another
\* call fetched the record, replaced the file and returned the new record
ExpiredDetailFileReplaced ==
    /\ \E o \in DOMAIN ops :
          /\ ops[o].st = "done" /\ ops[o].kind = "app_details"
          /\ ops[o].ret = OldDetailFile(1).doc
    /\ \E o \in DOMAIN ops :
          /\ ops[o].st = "done" /\ ops[o].kind = "app_details"
          /\ ops[o].ret = detail_files[1].doc
          /\ ops[o].ret # OldDetailFile(1).doc
    /\ detail_files[1].mtime > T0

\* C36: _is_processing is true in every state in which the fan-out of some
\* call is still running.
FlagCoversFanout ==
    \A c \in Calls : pc[c] = "fanout" => is_processing

\* C37: a call with force_refresh = true is never turned away and never
\* reads the cache: it waits for the lock at most, fetches the catalog and
\* runs the fan-out over every flagged game.  It returns an error, or the
\* result it has built itself from that fan-out.
ForcedRecomputes ==
    /\ [](\A c \in Calls :
             force[c] =>
                 /\ pc[c] \in {"wait_lock", "owned_games", "fanout", "save"}
                 /\ ~cached[c].some
                 /\ pc[c] = "save" =>
                       /\ owned[c].kind = "ok"
                       /\ Len(tasks[c]) = Len(GamesWithStats(library))
                       /\ \A i \in 1..Len(tasks[c]) : tasks[c][i].st = "consumed")
    /\ [][\A c \in Calls :
             GetAchievementProgress(c, TRUE) =>
                 \/ force'[c] /\ pc'[c] \in {"wait_lock", "owned_games"}
                 \/ pc'[c] = "done" /\ "error" \in DOMAIN ret'[c].val
         ]_vars
    /\ [][\A c \in Calls :
             (force[c] /\ pc'[c] = "done") =>
                 \/ "error" \in DOMAIN ret'[c].val
                 \/ /\ pc[c] = "save"
                    /\ ret'[c] = Some(ValidateProgressData(result[c].val))
         ]_vars

\* a forced call has fetched the catalog and finished its fan-out, and is
\* about to return a result newer than the valid cache, while the other call
\* is computing
ForcedPastValidCache ==
    \E c \in Calls, d \in Calls :
        /\ c # d
        /\ force[c] /\ pc[c] = "save"
        /\ GetOverallProgress(cacheFile, now).some
        /\ result[c].val.last_updated > cacheFile.doc.last_updated
        /\ pc[d] = "fanout"

\* C38: with every remote call and every cache access ending, every call of
\* get_achievement_progress that has started returns, with both gates full
\* and tasks waiting at each of them, and with two callers at the same time;
\* the progress lock is held only by a call inside the locked section.
EveryCallReturns ==
    /\ \A c \in Calls : (pc[c] \notin {"idle", "done"}) ~> (pc[c] = "done")
    /\ [](locked => \E c \in Calls : pc[c] \in InLock)
    /\ []((\A c \in Calls : pc[c] \in {"idle", "done"}) =>
             /\ ~locked /\ waiters = << >>
             /\ \A c \in Calls : tasks[c] = << >>)

\* the call over the large library has returned its progress: every task has
\* passed the game gate, and the lock and the request pool are free
LargeLibraryReturned ==
    /\ ~SmallLibrary
    /\ pc[Caller] = "done"
    /\ ret[Caller].some
    /\ "error" \notin DOMAIN ret[Caller].val
    /\ ret[Caller].val.total_games = MAX_GAMES + 1
    /\ \A o \in DOMAIN ops : ops[o].st = "done"
    /\ ~locked
    /\ sem_value = MAX_API_REQUESTS /\ sem_waiters = << >>

\* C39: every entry of the achievement cache is a summary without an error
\* and with total > 0; a response that ends get_player_achievements with an
\* error result or the zero-total summary leaves no cache entry for its game
\* and user, and a call for the game of a zero-total summary that was just
\* returned sends the player-state request again
OnlyNonEmptySummariesCached ==
    /\ [](\A k \in DOMAIN achievement_cache :
             /\ "error" \notin DOMAIN achievement_cache[k].value
             /\ achievement_cache[k].value.total > 0)
    /\ [][\A o \in Ops :
             (/\ ops[o].st \in {"player", "schema", "global"}
              /\ ops'[o].st = "done"
              /\ "error" \in DOMAIN ops'[o].ret)
             => ~CacheGet(achievement_cache',
                          AchievementKey(ops[o].app, ops[o].user), now').some]_vars
    /\ [][\A app \in SummaryApps :
             (/\ ops[FirstOp].st = "done"
              /\ "error" \in DOMAIN ops[FirstOp].ret
              /\ "app_id" \in DOMAIN ops[FirstOp].ret
              /\ ops[FirstOp].ret.app_id = app
              /\ GetPlayerAchievements(FirstOp, app, "self"))
             => ops'[FirstOp].st = "player"]_vars

\* a call for the game without achievements is in its player-state request
\* after an earlier call for that game went as far as caching its schema and
\* so returned the zero-total summary, while the summary of another game is
\* cached
RefetchAfterZeroTotal ==
    /\ ops[FirstOp].st = "player"
    /\ SchemaOf(ops[FirstOp].app) = << >>
    /\ SchemaKey(ops[FirstOp].app) \in DOMAIN schema_cache
    /\ AchievementKey(ops[FirstOp].app, "self") \notin DOMAIN achievement_cache
    /\ achievement_cache # NoCache

\* C40: when a recomputation returns its result (the return after the save,
\* not an error), the achievement cache and the schema cache of the client
\* are both empty
CachesEmptyAtReturn ==
    [][\A c \in Calls :
          (/\ pc[c] = "save"
           /\ pc'[c] = "done"
           /\ ret'[c].some
           /\ "error" \notin DOMAIN ret'[c].val)
          => /\ achievement_cache' = NoCache
             /\ schema_cache' = NoCache]_vars

\* a recomputation has returned a result that counts a game whose summary
\* was fetched by an operation of the fan-out, and neither cache holds
\* anything
FetchedSummariesDropped ==
    /\ pc[Caller] = "done"
    /\ ret[Caller].some
    /\ "error" \notin DOMAIN ret[Caller].val
    /\ ret[Caller].val.games_with_achievements > 0
    /\ \E o \in DOMAIN ops :
          /\ ops[o].st = "done"
          /\ "error" \notin DOMAIN ops[o].ret
          /\ ops[o].ret.total > 0
    /\ achievement_cache = NoCache
    /\ schema_cache = NoCache

====
